---- MODULE Spec2Model ----
(***************************************************************************)
(* ETF portfolio tracker: the SQLite store (src/lib/db.ts), the API routes *)
(* over it, the holdings page's buy/sell flows and the pure lot-matching   *)
(* function sellFIFO.                                                      *)
(*                                                                         *)
(* Calendar dates ("YYYY-MM-DD" strings in the program) are day numbers;   *)
(* prices and quantities are small integers.                               *)
(***************************************************************************)
EXTENDS Integers, Sequences, FiniteSets, TLC

\* ------------------------------------------------------------------ bounds
\* Rows ever inserted into holdings (AUTOINCREMENT ids 1..MaxLots).
MaxLots == 2
\* Rows ever inserted into trades.
MaxTrades == 1
\* Calendar days 1..MaxDate.
MaxDate == 2
\* Longest lot list handed to sellFIFO, and the largest lot quantity in it.
MaxLen == 3
\* Requests whose handlers run interleaved.
MaxProcs == 3
MaxQty == 2

Dates == 1..MaxDate
\* Sample values of request bodies (data model: prices and quantities > 0):
\* what a purchase is entered with, what an edit corrects it to, and the
\* prices a sale is made at (one below, one above the purchase price).
BuyPrices == {10}
Quantities == {3}
EditPrices == {11}
EditQuantities == {4}
SellPrices == {9, 12}
\* Values a settings PUT supplies for a daily cap (0 is stored and read back
\* as the default).
CapValues == {0, 2}
\* Two of the seeded instruments, and a symbol no row of etfs carries.
SeedSymbols == {"GOLDBEES", "NIFTYBEES"}
UnknownSymbol == "NOSUCHETF"
\* The symbols direct API requests name: a seeded one and the unknown one.
ApiSymbols == {"GOLDBEES", UnknownSymbol}


\* ------------------------------------------------------------------ state
VARIABLES
    \* --- SQLite tables
    etfs,              \* set of rows [id, symbol, yahoo_symbol]
    holdings,          \* set of rows [id, etf_id, buy_date, buy_price, quantity]
    nextHoldingId,     \* AUTOINCREMENT of holdings
    trades,            \* set of rows of the trades table
    nextTradeId,       \* AUTOINCREMENT of trades
    daily_activity,    \* rows [date, buy_count, sell_count] in rowid order
    settings,          \* key -> stored text (a sequence of characters)
    \* --- environment
    today,             \* the current calendar day
    resp,              \* the most recent API response [route, status, id]
    warned,            \* whether that request logged the soft-limit warning (console.warn)
    \* --- holdings page (React state)
    ui,
    \* --- interleaved POST handlers: each request's position and the count it read
    cpc, cread,
    \* --- a call of sellFIFO: the caller's array, the quantity and the result
    lots, qtyToSell, fifo,
    \* --- the capital_transactions table and its AUTOINCREMENT
    capital_transactions, nextCapitalId,
    \* --- the most recent evaluation of a function of lib/calculations.ts or
    \*     of a page's derived view: its inputs and what it returned
    calc,
    \* --- the market_data table, the AUTOINCREMENT of etfs and the instruments
    \*     a running market refresh still waits for (their yahoo symbols)
    market_data, nextEtfId, refresh

dbVars   == <<etfs, holdings, nextHoldingId, trades, nextTradeId, daily_activity, settings>>
envVars  == <<today, resp, warned>>
concVars == <<cpc, cread>>
fifoVars == <<lots, qtyToSell, fifo>>
capVars  == <<capital_transactions, nextCapitalId>>
calcVars == <<calc>>
mktVars  == <<market_data, nextEtfId, refresh>>
vars     == <<dbVars, envVars, ui, concVars, fifoVars, capVars, calcVars, mktVars>>

\* ------------------------------------------------------- text and numbers
DigitChars == <<"0", "1", "2", "3", "4", "5", "6", "7", "8", "9">>
IsDigit(c) == \E i \in 1..10 : DigitChars[i] = c
DigitOf(c) == (CHOOSE i \in 1..10 : DigitChars[i] = c) - 1

\* String(n) for a non-negative integer: its decimal digits.
RECURSIVE String(_)
String(n) ==
    IF n < 10 THEN <<DigitChars[n + 1]>>
    ELSE String(n \div 10) \o <<DigitChars[(n % 10) + 1]>>

RECURSIVE DigitsValue(_)
DigitsValue(s) ==
    IF s = <<>> THEN 0
    ELSE 10 * DigitsValue(SubSeq(s, 1, Len(s) - 1)) + DigitOf(s[Len(s)])

RECURSIVE Pow10(_)
Pow10(k) == IF k = 0 THEN 1 ELSE 10 * Pow10(k - 1)

\* Length of the longest prefix of s made of digits.
RECURSIVE DigitPrefix(_)
DigitPrefix(s) ==
    IF s # <<>> /\ IsDigit(s[1]) THEN 1 + DigitPrefix(Tail(s)) ELSE 0

\* parseFloat on unsigned decimal text: the longest numeric prefix
\* (digits, optionally "." and more digits) as the exact fraction num/den;
\* NaN when the text does not start with a number.
parseFloat(s) ==
    LET ip   == DigitPrefix(s)
        rest == SubSeq(s, ip + 1, Len(s))
        fp   == IF rest # <<>> /\ rest[1] = "." THEN DigitPrefix(Tail(rest)) ELSE 0
    IN  IF ip = 0 /\ fp = 0
        THEN [nan |-> TRUE, num |-> 0, den |-> 1]
        ELSE [nan |-> FALSE,
              num |-> DigitsValue(SubSeq(s, 1, ip)) * Pow10(fp)
                      + DigitsValue(SubSeq(rest, 2, fp + 1)),
              den |-> Pow10(fp)]

Num(n) == [nan |-> FALSE, num |-> n, den |-> 1]
\* JavaScript truthiness of a number: neither NaN nor 0.
Truthy(x) == ~x.nan /\ x.num # 0
\* x || d
OrElse(x, d) == IF Truthy(x) THEN x ELSE d
\* n >= x for an integer n and a parsed number x (den > 0).
GreaterEq(n, x) == ~x.nan /\ n * x.den >= x.num

\* ------------------------------------------------------------- db.ts
SettingKeys == {"profit_target_percent", "min_profit_amount", "per_transaction_amount",
                "total_capital", "min_volume", "averaging_threshold",
                "max_daily_buys", "max_daily_sells"}

\* The rows initializeDatabase seeds into an empty settings table.
defaultSettings ==
    [k \in SettingKeys |->
        CASE k = "profit_target_percent"  -> <<"3">>
          [] k = "min_profit_amount"      -> <<"3", "0", "0">>
          [] k = "per_transaction_amount" -> <<"1", "0", "0", "0", "0">>
          [] k = "total_capital"          -> <<"5", "0", "0", "0", "0", "0">>
          [] k = "min_volume"             -> <<"1", "5", "0", "0", "0">>
          [] k = "averaging_threshold"    -> <<"2", ".", "5">>
          [] k = "max_daily_buys"         -> <<"1">>
          [] k = "max_daily_sells"        -> <<"1">>]

\* Two of the rows initializeDatabase seeds into an empty etfs table from
\* data/etf_list.json.
\* yahoo_symbol is `${symbol}.NS`, kept as the pair of its two parts.
seedETFs == {[id |-> 1, symbol |-> "GOLDBEES", yahoo_symbol |-> <<"GOLDBEES", ".NS">>],
             [id |-> 2, symbol |-> "NIFTYBEES", yahoo_symbol |-> <<"NIFTYBEES", ".NS">>]}

getSettings ==
    [profitTargetPercent  |-> OrElse(parseFloat(settings["profit_target_percent"]), Num(6)),
     minProfitAmount      |-> OrElse(parseFloat(settings["min_profit_amount"]), Num(500)),
     perTransactionAmount |-> OrElse(parseFloat(settings["per_transaction_amount"]), Num(10000)),
     totalCapital         |-> OrElse(parseFloat(settings["total_capital"]), Num(500000)),
     minVolume            |-> OrElse(parseFloat(settings["min_volume"]), Num(15000)),
     averagingThreshold   |-> OrElse(parseFloat(settings["averaging_threshold"]),
                                     [nan |-> FALSE, num |-> 25, den |-> 10]),
     maxDailyBuys         |-> OrElse(parseFloat(settings["max_daily_buys"]), Num(1)),
     maxDailySells        |-> OrElse(parseFloat(settings["max_daily_sells"]), Num(1))]

\* UPDATE settings SET value = ? WHERE key = ?
updateSetting(tbl, key, value) ==
    IF key \in DOMAIN tbl THEN [tbl EXCEPT ![key] = value] ELSE tbl

\* SELECT ... FROM etfs WHERE symbol = ?  (the set holds 0 or 1 rows)
getETFBySymbol(symbol) == {e \in etfs : e.symbol = symbol}

\* SELECT * FROM daily_activity WHERE date = ?  (the rows found)
ActivityIn(tbl, date) == {i \in DOMAIN tbl : tbl[i].date = date}
getDailyActivity(date) == {daily_activity[i] : i \in ActivityIn(daily_activity, date)}

\* activity?.buy_count || 0  and  activity?.sell_count || 0
BuyCountOf(activity)  == IF activity = {} THEN 0 ELSE (CHOOSE r \in activity : TRUE).buy_count
SellCountOf(activity) == IF activity = {} THEN 0 ELSE (CHOOSE r \in activity : TRUE).sell_count

\* Mutant: ON CONFLICT(date) DO UPDATE SET buy_count = 1.
incrementDailyBuy_reset(tbl, date) ==
    IF \E i \in DOMAIN tbl : tbl[i].date = date
    THEN [i \in DOMAIN tbl |->
            IF tbl[i].date = date THEN [tbl[i] EXCEPT !.buy_count = 1] ELSE tbl[i]]
    ELSE Append(tbl, [date |-> date, buy_count |-> 1, sell_count |-> 0])

\* INSERT ... VALUES (?, 1, 0) ON CONFLICT(date) DO UPDATE SET buy_count = buy_count + 1
incrementDailyBuy(tbl, date) ==
    IF \E i \in DOMAIN tbl : tbl[i].date = date
    THEN [i \in DOMAIN tbl |->
            IF tbl[i].date = date THEN [tbl[i] EXCEPT !.buy_count = @ + 1] ELSE tbl[i]]
    ELSE Append(tbl, [date |-> date, buy_count |-> 1, sell_count |-> 0])

\* INSERT ... VALUES (?, 0, 1) ON CONFLICT(date) DO UPDATE SET sell_count = sell_count + 1
incrementDailySell(tbl, date) ==
    IF \E i \in DOMAIN tbl : tbl[i].date = date
    THEN [i \in DOMAIN tbl |->
            IF tbl[i].date = date THEN [tbl[i] EXCEPT !.sell_count = @ + 1] ELSE tbl[i]]
    ELSE Append(tbl, [date |-> date, buy_count |-> 0, sell_count |-> 1])

\* INSERT INTO holdings (etf_id, buy_date, buy_price, quantity)
addHolding(etfId, buyDate, buyPrice, quantity) ==
    holdings \cup {[id |-> nextHoldingId, etf_id |-> etfId, buy_date |-> buyDate,
                    buy_price |-> buyPrice, quantity |-> quantity]}

\* UPDATE holdings SET buy_price = ?, quantity = ? WHERE id = ?
updateHolding(id, buyPrice, quantity) ==
    {IF h.id = id THEN [h EXCEPT !.buy_price = buyPrice, !.quantity = quantity] ELSE h
        : h \in holdings}

\* DELETE FROM holdings WHERE id = ?
deleteHolding(id) == {h \in holdings : h.id # id}

\* DELETE FROM trades WHERE id = ?
deleteTrade(id) == {t \in trades : t.id # id}

\* new Date("YYYY-MM-DD").getTime(): UTC midnight of the day, in milliseconds.
MsPerDay == 1000 * 60 * 60 * 24
getTime(date) == date * MsPerDay

\* The row addTrade inserts: the three derived fields are computed here and
\* stored.  a \div b is floor(a / b) for b > 0; profit_percent is kept as the
\* exact fraction num/den.
\* Mutant: the stored profit is the price difference of one unit.
addTrade_perUnit(etfId, buyDate, sellDate, buyPrice, sellPrice, quantity) ==
    LET profit        == sellPrice - buyPrice
        profitPercent == [num |-> (sellPrice - buyPrice) * 100, den |-> buyPrice]
        holdingDays   == (getTime(sellDate) - getTime(buyDate)) \div MsPerDay
    IN  trades \cup {[id |-> nextTradeId, etf_id |-> etfId, buy_date |-> buyDate,
                      sell_date |-> sellDate, buy_price |-> buyPrice,
                      sell_price |-> sellPrice, quantity |-> quantity,
                      profit |-> profit, profit_percent |-> profitPercent,
                      holding_days |-> holdingDays]}

addTrade(etfId, buyDate, sellDate, buyPrice, sellPrice, quantity) ==
    LET profit        == (sellPrice - buyPrice) * quantity
        profitPercent == [num |-> (sellPrice - buyPrice) * 100, den |-> buyPrice]
        holdingDays   == (getTime(sellDate) - getTime(buyDate)) \div MsPerDay
    IN  trades \cup {[id |-> nextTradeId, etf_id |-> etfId, buy_date |-> buyDate,
                      sell_date |-> sellDate, buy_price |-> buyPrice,
                      sell_price |-> sellPrice, quantity |-> quantity,
                      profit |-> profit, profit_percent |-> profitPercent,
                      holding_days |-> holdingDays]}

\* SELECT ... FROM holdings h JOIN etfs e ON h.etf_id = e.id
getAllHoldings ==
    {[id |-> h.id, etfId |-> h.etf_id,
      etfSymbol |-> (CHOOSE e \in etfs : e.id = h.etf_id).symbol,
      buyDate |-> h.buy_date, buyPrice |-> h.buy_price, quantity |-> h.quantity]
        : h \in {x \in holdings : \E e \in etfs : e.id = x.etf_id}}

\* ------------------------------------------------------------ API routes
\* Every handler runs to completion once the request body is parsed
\* (better-sqlite3 is synchronous), so a handler is one step.
Response(route, status, id) == [route |-> route, status |-> status, id |-> id]

\* Mutant: the cap is enforced, a reached limit rejects the purchase.
holdings_POST_hardCap(etfSymbol, buyDate, buyPrice, quantity) ==
    LET cfg      == getSettings
        activity == getDailyActivity(buyDate)
        buyCount == BuyCountOf(activity)
        etf      == getETFBySymbol(etfSymbol)
        reached  == Truthy(cfg.maxDailyBuys) /\ GreaterEq(buyCount, cfg.maxDailyBuys)
    IN  /\ warned' = reached
        /\ IF reached
           THEN /\ resp' = Response("POST /api/holdings", 429, 0)
                /\ UNCHANGED dbVars
           ELSE IF etf = {}
           THEN /\ resp' = Response("POST /api/holdings", 404, 0)
                /\ UNCHANGED dbVars
           ELSE /\ holdings' = addHolding((CHOOSE e \in etf : TRUE).id, buyDate, buyPrice, quantity)
                /\ nextHoldingId' = nextHoldingId + 1
                /\ daily_activity' = incrementDailyBuy(daily_activity, buyDate)
                /\ resp' = Response("POST /api/holdings", 200, nextHoldingId)
                /\ UNCHANGED <<etfs, trades, nextTradeId, settings>>

\* POST /api/holdings
holdings_POST(etfSymbol, buyDate, buyPrice, quantity) ==
    LET cfg      == getSettings
        activity == getDailyActivity(buyDate)
        buyCount == BuyCountOf(activity)
        etf      == getETFBySymbol(etfSymbol)
    IN  /\ warned' = (Truthy(cfg.maxDailyBuys) /\ GreaterEq(buyCount, cfg.maxDailyBuys))
        /\ IF etf = {}
           THEN /\ resp' = Response("POST /api/holdings", 404, 0)
                /\ UNCHANGED dbVars
           ELSE /\ holdings' = addHolding((CHOOSE e \in etf : TRUE).id, buyDate, buyPrice, quantity)
                /\ nextHoldingId' = nextHoldingId + 1
                /\ daily_activity' = incrementDailyBuy(daily_activity, buyDate)
                /\ resp' = Response("POST /api/holdings", 200, nextHoldingId)
                /\ UNCHANGED <<etfs, trades, nextTradeId, settings>>

\* Mutant: an edit of a lot also rewrites the trades of its instrument with
\* the corrected purchase price.
holdings_PUT_recompute(id, buyPrice, quantity, buyDate) ==
    /\ warned' = FALSE
    /\ holdings' = updateHolding(id, buyPrice, quantity)
    /\ trades' = {IF \E h \in holdings : h.id = id /\ h.etf_id = t.etf_id
                  THEN [t EXCEPT !.buy_price = buyPrice,
                                 !.profit = (t.sell_price - buyPrice) * t.quantity]
                  ELSE t : t \in trades}
    /\ resp' = Response("PUT /api/holdings", 200, 0)
    /\ UNCHANGED <<etfs, nextHoldingId, nextTradeId, daily_activity, settings>>

\* PUT /api/holdings: updateHolding is called with four arguments and takes three.
holdings_PUT(id, buyPrice, quantity, buyDate) ==
    /\ warned' = FALSE
    /\ holdings' = updateHolding(id, buyPrice, quantity)
    /\ resp' = Response("PUT /api/holdings", 200, 0)
    /\ UNCHANGED <<etfs, nextHoldingId, trades, nextTradeId, daily_activity, settings>>

\* Mutant: deleting a lot takes its purchase back out of the day's count.
holdings_DELETE_uncount(id, dbFault) ==
    /\ warned' = FALSE
    /\ IF id = 0
       THEN resp' = Response("DELETE /api/holdings", 400, 0) /\ UNCHANGED dbVars
       ELSE IF dbFault
       THEN resp' = Response("DELETE /api/holdings", 500, 0) /\ UNCHANGED dbVars
       ELSE /\ holdings' = deleteHolding(id)
            /\ daily_activity' =
                 [i \in DOMAIN daily_activity |->
                    IF \E h \in holdings : h.id = id /\ h.buy_date = daily_activity[i].date
                    THEN [daily_activity[i] EXCEPT !.buy_count = @ - 1]
                    ELSE daily_activity[i]]
            /\ resp' = Response("DELETE /api/holdings", 200, 0)
            /\ UNCHANGED <<etfs, nextHoldingId, trades, nextTradeId, settings>>

\* DELETE /api/holdings?id=...; dbFault: the DELETE statement throws.
holdings_DELETE(id, dbFault) ==
    /\ warned' = FALSE
    /\ IF id = 0
       THEN resp' = Response("DELETE /api/holdings", 400, 0) /\ UNCHANGED dbVars
       ELSE IF dbFault
       THEN resp' = Response("DELETE /api/holdings", 500, 0) /\ UNCHANGED dbVars
       ELSE /\ holdings' = deleteHolding(id)
            /\ resp' = Response("DELETE /api/holdings", 200, 0)
            /\ UNCHANGED <<etfs, nextHoldingId, trades, nextTradeId, daily_activity, settings>>

\* POST /api/trades
trades_POST(etfSymbol, buyDate, sellDate, buyPrice, sellPrice, quantity) ==
    LET cfg       == getSettings
        activity  == getDailyActivity(sellDate)
        sellCount == SellCountOf(activity)
        etf       == getETFBySymbol(etfSymbol)
    IN  /\ warned' = (Truthy(cfg.maxDailySells) /\ GreaterEq(sellCount, cfg.maxDailySells))
        /\ IF etf = {}
           THEN /\ resp' = Response("POST /api/trades", 404, 0)
                /\ UNCHANGED dbVars
           ELSE /\ trades' = addTrade((CHOOSE e \in etf : TRUE).id, buyDate, sellDate,
                                      buyPrice, sellPrice, quantity)
                /\ nextTradeId' = nextTradeId + 1
                /\ daily_activity' = incrementDailySell(daily_activity, sellDate)
                /\ resp' = Response("POST /api/trades", 200, nextTradeId)
                /\ UNCHANGED <<etfs, holdings, nextHoldingId, settings>>

\* POST /api/trades when a statement throws: catch (error) { ... status: 500 }
trades_POST_catch ==
    /\ warned' = FALSE
    /\ resp' = Response("POST /api/trades", 500, 0)
    /\ UNCHANGED dbVars

\* DELETE /api/trades?id=...
trades_DELETE(id) ==
    /\ warned' = FALSE
    /\ IF id = 0
       THEN resp' = Response("DELETE /api/trades", 400, 0) /\ UNCHANGED dbVars
       ELSE /\ trades' = deleteTrade(id)
            /\ resp' = Response("DELETE /api/trades", 200, 0)
            /\ UNCHANGED <<etfs, holdings, nextHoldingId, nextTradeId, daily_activity, settings>>

\* GET /api/settings: the settings plus the activity of the server's current day.
settings_GET ==
    LET cfg      == getSettings
        activity == getDailyActivity(today)
    IN  [maxDailyBuys  |-> cfg.maxDailyBuys,
         maxDailySells |-> cfg.maxDailySells,
         dailyActivity |-> [buys |-> BuyCountOf(activity), sells |-> SellCountOf(activity)]]

\* if (body.<field> !== undefined) updateSetting('<key>', String(body.<field>))
PutField(tbl, body, field, key) ==
    IF field \in DOMAIN body THEN updateSetting(tbl, key, String(body[field])) ELSE tbl

\* PUT /api/settings: body maps the supplied fields to their values.
settings_PUT(body) ==
    LET s1 == PutField(settings, body, "profitTargetPercent", "profit_target_percent")
        s2 == PutField(s1, body, "minProfitAmount", "min_profit_amount")
        s3 == PutField(s2, body, "perTransactionAmount", "per_transaction_amount")
        s4 == PutField(s3, body, "totalCapital", "total_capital")
        s5 == PutField(s4, body, "minVolume", "min_volume")
        s6 == PutField(s5, body, "averagingThreshold", "averaging_threshold")
        s7 == PutField(s6, body, "maxDailyBuys", "max_daily_buys")
        s8 == PutField(s7, body, "maxDailySells", "max_daily_sells")
    IN  /\ warned' = FALSE
        /\ settings' = s8
        /\ resp' = Response("PUT /api/settings", 200, 0)
        /\ UNCHANGED <<etfs, holdings, nextHoldingId, trades, nextTradeId, daily_activity>>

\* ------------------------------------------------------- initial state
InitDB ==
    /\ etfs = seedETFs
    /\ holdings = {} /\ nextHoldingId = 1
    /\ trades = {} /\ nextTradeId = 1
    /\ daily_activity = <<>>
    /\ settings = defaultSettings

InitEnv ==
    /\ today = 1
    /\ resp = Response("none", 0, 0)
    /\ warned = FALSE

InitUI == ui = [page |-> "closed"]
InitConc == cpc = <<>> /\ cread = <<>>
InitFifo == lots = <<>> /\ qtyToSell = 0 /\ fifo = [pc |-> "off"]
InitCap == capital_transactions = {} /\ nextCapitalId = 1
InitCalc == calc = [fn |-> "none"]
InitMkt == market_data = {} /\ nextEtfId = 3 /\ refresh = {}

\* The day changes.
Tick == today < MaxDate /\ today' = today + 1 /\ UNCHANGED <<resp, warned>>

\* -------------------------------------------- the API driven by any client
SettingsBodies ==
    UNION {[F -> CapValues] : F \in SUBSET {"maxDailyBuys", "maxDailySells"}}

ApiPostHolding ==
    /\ nextHoldingId <= MaxLots
    /\ \E sym \in ApiSymbols, d \in Dates, p \in BuyPrices, q \in Quantities :
          holdings_POST(sym, d, p, q)
    /\ UNCHANGED <<today, ui, concVars, fifoVars, mktVars, capVars, calcVars>>

ApiPutHolding ==
    /\ \E h \in holdings, p \in EditPrices, q \in EditQuantities, d \in Dates :
          holdings_PUT(h.id, p, q, d)
    /\ UNCHANGED <<today, ui, concVars, fifoVars, mktVars, capVars, calcVars>>

ApiDeleteHolding ==
    /\ \E id \in 0..MaxLots, dbFault \in BOOLEAN : holdings_DELETE(id, dbFault)
    /\ UNCHANGED <<today, ui, concVars, fifoVars, mktVars, capVars, calcVars>>

ApiPostTrade ==
    /\ nextTradeId <= MaxTrades
    /\ \E sym \in ApiSymbols, bd \in Dates, sd \in Dates,
          bp \in BuyPrices, sp \in SellPrices, q \in Quantities :
          trades_POST(sym, bd, sd, bp, sp, q)
    /\ UNCHANGED <<today, ui, concVars, fifoVars, mktVars, capVars, calcVars>>

ApiDeleteTrade ==
    /\ \E id \in 0..MaxTrades : trades_DELETE(id)
    /\ UNCHANGED <<today, ui, concVars, fifoVars, mktVars, capVars, calcVars>>

ApiPutSettings ==
    /\ \E body \in SettingsBodies : settings_PUT(body)
    /\ UNCHANGED <<today, ui, concVars, fifoVars, mktVars, capVars, calcVars>>

InitAPI == InitDB /\ InitEnv /\ InitUI /\ InitConc /\ InitFifo /\ InitCap /\ InitMkt /\ InitCalc

NextAPI ==
    \/ ApiPostHolding
    \/ ApiPutHolding
    \/ ApiDeleteHolding
    \/ ApiPostTrade
    \/ ApiDeleteTrade
    \/ ApiPutSettings

SpecAPI == InitAPI /\ [][NextAPI]_vars

\* ------------------------------------------------------------ properties
\* The counter of a date in a daily_activity table (0 when it has no row).
BuysOn(tbl, d)  == IF ActivityIn(tbl, d) = {} THEN 0
                   ELSE tbl[CHOOSE i \in ActivityIn(tbl, d) : TRUE].buy_count
SellsOn(tbl, d) == IF ActivityIn(tbl, d) = {} THEN 0
                   ELSE tbl[CHOOSE i \in ActivityIn(tbl, d) : TRUE].sell_count
EtfIdOf(sym) == (CHOOSE e \in etfs : e.symbol = sym).id

C3_CountersNeverDecrease ==
    [][ \A d \in Dates :
          /\ BuysOn(daily_activity', d) >= BuysOn(daily_activity, d)
          /\ SellsOn(daily_activity', d) >= SellsOn(daily_activity, d)
          /\ ActivityIn(daily_activity, d) # {} => ActivityIn(daily_activity', d) # {}
      ]_vars

\* C3 witness: every lot has been deleted and the count of its purchase date
\* is still there.
C3_Witness ==
    /\ resp.route = "DELETE /api/holdings" /\ resp.status = 200
    /\ holdings = {}
    /\ \E d \in Dates : BuysOn(daily_activity, d) >= 1

\* The effect of recording one buy (kind = "buy") or one sell on date d:
\* that counter of d is one higher, every other counter is as before, and
\* d has exactly one row.
RecordedOnce(kind, d) ==
    /\ \A x \in Dates :
          /\ BuysOn(daily_activity', x) =
                BuysOn(daily_activity, x) + (IF kind = "buy" /\ x = d THEN 1 ELSE 0)
          /\ SellsOn(daily_activity', x) =
                SellsOn(daily_activity, x) + (IF kind = "sell" /\ x = d THEN 1 ELSE 0)
          /\ x # d => Cardinality(ActivityIn(daily_activity', x))
                        = Cardinality(ActivityIn(daily_activity, x))
    /\ Cardinality(ActivityIn(daily_activity', d)) = 1

\* C4: each successful POST /api/holdings with buyDate d adds exactly 1 to
\* buy_count of d (a first use creates the row with 1 and 0), each successful
\* POST /api/trades with sellDate d adds exactly 1 to sell_count of d, and
\* nothing else in daily_activity changes.
C4_ExactlyOnePerRecord ==
    [][ /\ \A sym \in ApiSymbols, d \in Dates, p \in BuyPrices, q \in Quantities :
             (resp'.status = 200 /\ resp'.route = "POST /api/holdings"
                /\ holdings_POST(sym, d, p, q)) => RecordedOnce("buy", d)
        /\ \A sym \in ApiSymbols, bd \in Dates, sd \in Dates,
              bp \in BuyPrices, sp \in SellPrices, q \in Quantities :
             (resp'.status = 200 /\ resp'.route = "POST /api/trades"
                /\ trades_POST(sym, bd, sd, bp, sp, q)) => RecordedOnce("sell", sd)
      ]_vars

\* C4 witness: two buys were recorded for one date and its count is 2.
C4_Witness ==
    /\ resp.route = "POST /api/holdings" /\ resp.status = 200
    /\ nextHoldingId = 3
    /\ \E d \in Dates : BuysOn(daily_activity, d) = 2 /\ SellsOn(daily_activity, d) = 1

\* ------------------------------------------------- calculations.ts: sellFIFO
\* Lists handed to sellFIFO: the k-th element is the Holding object with id k.
FifoLot(k, d, q) == [id |-> k, buyDate |-> d, quantity |-> q]
LotLists ==
    UNION { { [k \in 1..n |-> FifoLot(k, ds[k], qs[k])] :
                ds \in [1..n -> Dates], qs \in [1..n -> 1..MaxQty] } : n \in 0..MaxLen }
SellQuantities == (0 - 1)..(MaxLen * MaxQty + 1)

\* Mutant: the comparator is b - a, newest first.
newestFirst(a, b) == getTime(b.buyDate) - getTime(a.buyDate) < 0

\* (a, b) => new Date(a.buyDate).getTime() - new Date(b.buyDate).getTime()
oldestFirst(a, b) == getTime(a.buyDate) - getTime(b.buyDate) < 0

\* Array.prototype.sort is stable: an element goes behind every element the
\* comparator does not put after it.
RECURSIVE insertSorted(_, _)
insertSorted(sorted, h) ==
    IF sorted = <<>> THEN <<h>>
    ELSE IF oldestFirst(h, sorted[Len(sorted)])
         THEN Append(insertSorted(SubSeq(sorted, 1, Len(sorted) - 1), h),
                     sorted[Len(sorted)])
         ELSE Append(sorted, h)
\* [...holdings].sort(comparator)
RECURSIVE sortCopy(_)
sortCopy(arr) ==
    IF arr = <<>> THEN <<>>
    ELSE insertSorted(sortCopy(SubSeq(arr, 1, Len(arr) - 1)), arr[Len(arr)])

\* for (const holding of sorted) { ... }
RECURSIVE sellLoop(_, _, _, _, _)
sellLoop(sorted, i, remainingToSell, soldHoldings, remaining) ==
    IF i > Len(sorted)
    THEN [soldHoldings |-> soldHoldings, remaining |-> remaining]
    ELSE LET holding == sorted[i] IN
         IF remainingToSell <= 0
         THEN sellLoop(sorted, i + 1, remainingToSell, soldHoldings, Append(remaining, holding))
         ELSE IF holding.quantity <= remainingToSell
         THEN sellLoop(sorted, i + 1, remainingToSell - holding.quantity,
                       Append(soldHoldings, [holding |-> holding, quantitySold |-> holding.quantity]),
                       remaining)
         ELSE sellLoop(sorted, i + 1, 0,
                       Append(soldHoldings, [holding |-> holding, quantitySold |-> remainingToSell]),
                       Append(remaining,
                              [holding EXCEPT !.quantity = holding.quantity - remainingToSell]))

\* Mutant: holdings.sort(...) on the caller's array instead of on a copy.
sellFIFO_inPlace(arr, quantityToSell) ==
    LET sorted == sortCopy(arr)
        out    == sellLoop(sorted, 1, quantityToSell, <<>>, <<>>)
    IN  [soldHoldings |-> out.soldHoldings, remaining |-> out.remaining, holdings |-> sorted]

\* sellFIFO(holdings, quantityToSell); the field holdings is the caller's
\* array as the call leaves it (the function writes only to its own copy and
\* to the objects it creates).
sellFIFO(arr, quantityToSell) ==
    LET sorted == sortCopy(arr)
        out    == sellLoop(sorted, 1, quantityToSell, <<>>, <<>>)
    IN  [soldHoldings |-> out.soldHoldings, remaining |-> out.remaining, holdings |-> arr]

InitFifoCall ==
    /\ lots \in LotLists
    /\ qtyToSell \in SellQuantities
    /\ fifo = [pc |-> "ready"]

CallSellFIFO ==
    /\ fifo.pc = "ready"
    /\ LET r == sellFIFO(lots, qtyToSell) IN
         /\ fifo' = [pc |-> "done", soldHoldings |-> r.soldHoldings, remaining |-> r.remaining]
         /\ lots' = r.holdings
    /\ UNCHANGED <<qtyToSell, dbVars, envVars, ui, concVars, capVars, calcVars, mktVars>>

InitFIFO == InitDB /\ InitEnv /\ InitUI /\ InitConc /\ InitFifoCall /\ InitCap /\ InitMkt /\ InitCalc
NextFIFO == CallSellFIFO
SpecFIFO == InitFIFO /\ [][NextFIFO]_vars

RECURSIVE TotalQuantity(_)
TotalQuantity(seq) ==
    IF seq = <<>> THEN 0 ELSE seq[1].quantity + TotalQuantity(Tail(seq))
RECURSIVE TotalSold(_)
TotalSold(seq) ==
    IF seq = <<>> THEN 0 ELSE seq[1].quantitySold + TotalSold(Tail(seq))
Min(a, b) == IF a <= b THEN a ELSE b

\* Position of the k-th input lot in purchase-date order (ties keep the
\* order of the list).
DateRank(arr, k) ==
    1 + Cardinality({j \in DOMAIN arr :
                        \/ arr[j].buyDate < arr[k].buyDate
                        \/ arr[j].buyDate = arr[k].buyDate /\ j < k})
\* The input lot at position r of the purchase-date order.
LotAtRank(arr, r) == arr[CHOOSE k \in DOMAIN arr : DateRank(arr, k) = r]

\* C7: for a requested quantity q > 0 the sold entries are the first lots in
\* purchase-date order, each but the last sold in full; a last lot larger
\* than the outstanding amount is split and its remainder (quantity minus
\* outstanding) heads the remaining list, followed by the untouched later
\* lots; total sold = min(q, total) and sold + remaining = total.
C7_FifoOrder ==
    (fifo.pc = "done" /\ qtyToSell > 0) =>
        LET sold    == fifo.soldHoldings
            rest    == fifo.remaining
            n       == Len(sold)
            total   == TotalQuantity(lots)
            soldSum == TotalSold(sold)
            split   == n > 0 /\ sold[n].quantitySold < sold[n].holding.quantity
            kept    == IF split THEN n - 1 ELSE n
        IN  /\ n <= Len(lots)
            /\ \A i \in 1..n : sold[i].holding = LotAtRank(lots, i)
            /\ \A i \in 1..(n - 1) : sold[i].quantitySold = sold[i].holding.quantity
            /\ n > 0 => sold[n].quantitySold \in 1..sold[n].holding.quantity
            /\ Len(rest) = Len(lots) - kept
            /\ split =>
                 LET outstanding == qtyToSell - TotalSold(SubSeq(sold, 1, n - 1))
                 IN  /\ sold[n].quantitySold = outstanding
                     /\ rest[1] = [sold[n].holding EXCEPT
                                     !.quantity = sold[n].holding.quantity - outstanding]
            /\ \A i \in (n + 1)..Len(lots) : rest[i - kept] = LotAtRank(lots, i)
            /\ soldSum = Min(qtyToSell, total)
            /\ soldSum + TotalQuantity(rest) = total

\* C7 witness: the quantity runs out inside the second-oldest lot, which was
\* not second in the list handed in: one lot sold whole, one split, one kept.
C7_Witness ==
    /\ fifo.pc = "done" /\ qtyToSell > 0
    /\ Len(fifo.soldHoldings) = 2 /\ Len(fifo.remaining) = 2
    /\ fifo.soldHoldings[2].quantitySold < fifo.soldHoldings[2].holding.quantity
    /\ fifo.soldHoldings[1].holding.id = 3

Procs == 1..MaxProcs
ConcPrice == CHOOSE x \in BuyPrices : TRUE
ConcSellPrice == CHOOSE x \in SellPrices : x > ConcPrice
ConcQuantity == CHOOSE x \in Quantities : TRUE
ConcSymbol == "GOLDBEES"
\* The dates the interleaved requests name.
ConcDates == {1, 2}

InitConcRun ==
    /\ cpc = [p \in Procs |-> [pc |-> "idle"]]
    /\ cread = [p \in Procs |-> 0]

\* The request arrives: const { etfSymbol, buyDate | sellDate, ... } = body
ConcArrive(p) ==
    /\ cpc[p].pc = "idle"
    /\ \E kind \in {"buy", "sell"}, d \in ConcDates :
         cpc' = [cpc EXCEPT ![p] = [pc |-> "read", kind |-> kind, date |-> d]]
    /\ UNCHANGED <<cread, dbVars, envVars, ui, fifoVars, mktVars, capVars, calcVars>>

\* const activity = getDailyActivity(date); const count = activity ? ... : 0
ConcRead(p) ==
    /\ cpc[p].pc = "read"
    /\ cread' = [cread EXCEPT ![p] =
                    IF cpc[p].kind = "buy" THEN BuyCountOf(getDailyActivity(cpc[p].date))
                    ELSE SellCountOf(getDailyActivity(cpc[p].date))]
    /\ cpc' = [cpc EXCEPT ![p].pc = "insert"]
    /\ UNCHANGED <<dbVars, envVars, ui, fifoVars, mktVars, capVars, calcVars>>

\* const etf = getETFBySymbol(etfSymbol); const id = addHolding(...) | addTrade(...)
ConcInsert(p) ==
    /\ cpc[p].pc = "insert"
    /\ LET etf == CHOOSE e \in getETFBySymbol(ConcSymbol) : TRUE IN
         IF cpc[p].kind = "buy"
         THEN /\ holdings' = addHolding(etf.id, cpc[p].date, ConcPrice, ConcQuantity)
              /\ nextHoldingId' = nextHoldingId + 1
              /\ UNCHANGED <<trades, nextTradeId>>
         ELSE /\ trades' = addTrade(etf.id, cpc[p].date, cpc[p].date,
                                    ConcPrice, ConcSellPrice, ConcQuantity)
              /\ nextTradeId' = nextTradeId + 1
              /\ UNCHANGED <<holdings, nextHoldingId>>
    /\ cpc' = [cpc EXCEPT ![p].pc = "incr"]
    /\ UNCHANGED <<etfs, daily_activity, settings, cread, envVars, ui, fifoVars, mktVars, capVars, calcVars>>

BuysOnNow(d) == BuyCountOf(getDailyActivity(d))
SellsOnNow(d) == SellCountOf(getDailyActivity(d))

\* Mutant: the handler writes back the count it read, plus one.
ConcIncrement_writeBack(p) ==
    /\ cpc[p].pc = "incr"
    /\ LET d == cpc[p].date
           row == IF cpc[p].kind = "buy"
                  THEN [date |-> d, buy_count |-> cread[p] + 1,
                        sell_count |-> SellsOnNow(d)]
                  ELSE [date |-> d, buy_count |-> BuysOnNow(d),
                        sell_count |-> cread[p] + 1]
       IN  daily_activity' =
             IF ActivityIn(daily_activity, d) = {}
             THEN Append(daily_activity, row)
             ELSE [i \in DOMAIN daily_activity |->
                     IF daily_activity[i].date = d THEN row ELSE daily_activity[i]]
    /\ cpc' = [cpc EXCEPT ![p].pc = "done"]
    /\ UNCHANGED <<etfs, holdings, nextHoldingId, trades, nextTradeId, settings,
                   cread, envVars, ui, fifoVars, mktVars, capVars, calcVars>>

\* incrementDailyBuy(buyDate) | incrementDailySell(sellDate); return 200
ConcIncrement(p) ==
    /\ cpc[p].pc = "incr"
    /\ daily_activity' = IF cpc[p].kind = "buy"
                         THEN incrementDailyBuy(daily_activity, cpc[p].date)
                         ELSE incrementDailySell(daily_activity, cpc[p].date)
    /\ cpc' = [cpc EXCEPT ![p].pc = "done"]
    /\ UNCHANGED <<etfs, holdings, nextHoldingId, trades, nextTradeId, settings,
                   cread, envVars, ui, fifoVars, mktVars, capVars, calcVars>>

InitConcurrent == InitDB /\ InitEnv /\ InitUI /\ InitConcRun /\ InitFifo /\ InitCap /\ InitMkt /\ InitCalc
NextConc ==
    \E p \in Procs : ConcArrive(p) \/ ConcRead(p) \/ ConcInsert(p) \/ ConcIncrement(p)
SpecConc == InitConcurrent /\ [][NextConc]_vars

\* Requests of a kind for a date whose increment statement has run.
Recorded(kind, d) ==
    {p \in Procs : cpc[p].pc = "done" /\ cpc[p].kind = kind /\ cpc[p].date = d}
\* C5: in every interleaving the count of a date is exactly the number of
\* recordings made for it (so k recordings leave it k higher than the empty
\* start), and a date that has been recorded has exactly one row.
C5_NoLostIncrement ==
    \A d \in Dates :
        /\ BuysOn(daily_activity, d) = Cardinality(Recorded("buy", d))
        /\ SellsOn(daily_activity, d) = Cardinality(Recorded("sell", d))
        /\ Cardinality(ActivityIn(daily_activity, d)) =
             (IF Recorded("buy", d) \cup Recorded("sell", d) = {} THEN 0 ELSE 1)

\* C5 witness: every request was a buy for the same date, each read the
\* count while no row existed, and the count is the number of requests.
C5_Witness ==
    \E d \in Dates :
        /\ Recorded("buy", d) = Procs
        /\ \A p \in Procs : cread[p] = 0
        /\ BuysOn(daily_activity, d) = MaxProcs

\* ------------------------------------------------- the holdings page (React)
\* useState(null)
Null == [null |-> TRUE]
NoAlert == "none"
DeleteFailedAlert == "Trade recorded but failed to delete holding. Please delete manually."
TradeFailedAlert == "Failed to record trade"
AddFailedAlert == "Failed to add holding"

\* The state hooks of HoldingsContent when it mounts; useEffect starts the
\* first fetchData.  pc is the position of the sell handler in flight, via and
\* sellPrice record how and with what price the last request was submitted.
InitPage ==
    ui = [pc |-> "idle", fetching |-> TRUE,
          settings |-> Null, dailyActivity |-> Null, holdings |-> {},
          warningOpen |-> FALSE, pendingAction |-> Null,
          sellModalOpen |-> FALSE, holdingToSell |-> Null,
          alert |-> NoAlert, via |-> "none", sellPrice |-> 0]

\* No modal covers the page and no handler is waiting for a response.
PageFree == ui.pc = "idle" /\ ~ui.warningOpen /\ ~ui.sellModalOpen

\* fetchData: GET /api/holdings, /api/etfs, /api/settings and the setters.
fetchData ==
    /\ ui.fetching
    /\ LET settingsData == settings_GET IN
         ui' = [ui EXCEPT !.fetching = FALSE,
                          !.dailyActivity = settingsData.dailyActivity,
                          !.settings = [maxDailyBuys  |-> settingsData.maxDailyBuys,
                                        maxDailySells |-> settingsData.maxDailySells],
                          !.holdings = getAllHoldings]
    /\ UNCHANGED <<dbVars, envVars, concVars, fifoVars, mktVars, capVars, calcVars>>

\* settings?.maxDailyX && dailyActivity && dailyActivity.x >= settings.maxDailyX
\*   && !pendingAction
LimitReached(capField, countField) ==
    /\ ui.settings # Null /\ Truthy(ui.settings[capField])
    /\ ui.dailyActivity # Null
    /\ GreaterEq(ui.dailyActivity[countField], ui.settings[capField])
    /\ ui.pendingAction = Null

\* submitAddHolding with the form values of the render that created it; u is
\* the page state the synchronous part of the caller leaves.
submitAddHolding(form, via, u) ==
    /\ holdings_POST(form.etfSymbol, form.buyDate, form.buyPrice, form.quantity)
    /\ ui' = IF resp'.status = 200
             THEN [u EXCEPT !.pendingAction = Null, !.fetching = TRUE,
                            !.via = via, !.alert = NoAlert]
             ELSE [u EXCEPT !.via = via, !.alert = AddFailedAlert]

\* handleAddHolding: the add form is submitted.
handleAddHolding ==
    /\ PageFree
    /\ nextHoldingId <= MaxLots
    /\ \E sym \in SeedSymbols, d \in Dates, p \in BuyPrices, q \in Quantities :
         LET form == [kind |-> "add", etfSymbol |-> sym, buyDate |-> d,
                      buyPrice |-> p, quantity |-> q] IN
         IF LimitReached("maxDailyBuys", "buys")
         THEN /\ ui' = [ui EXCEPT !.pendingAction = form, !.warningOpen = TRUE,
                                  !.alert = NoAlert]
              /\ UNCHANGED <<dbVars, envVars>>
         ELSE /\ submitAddHolding(form, "direct", ui)
              /\ UNCHANGED today
    /\ UNCHANGED <<concVars, fifoVars, mktVars, capVars, calcVars>>

\* handleSellClick: the Sell button of a row of the table.
handleSellClick ==
    /\ PageFree
    /\ \E h \in ui.holdings :
         ui' = [ui EXCEPT !.holdingToSell = h, !.sellModalOpen = TRUE, !.alert = NoAlert]
    /\ UNCHANGED <<dbVars, envVars, concVars, fifoVars, mktVars, capVars, calcVars>>

\* SellModal onCancel
cancelSell ==
    /\ ui.pc = "idle" /\ ui.sellModalOpen
    /\ ui' = [ui EXCEPT !.sellModalOpen = FALSE, !.holdingToSell = Null]
    /\ UNCHANGED <<dbVars, envVars, concVars, fifoVars, mktVars, capVars, calcVars>>

\* executeSell up to the response of POST /api/trades; serverFault: the
\* route's statements throw.
executeSell(sellPrice, via, u, serverFault) ==
    /\ u.holdingToSell # Null
    /\ IF serverFault
       THEN trades_POST_catch
       ELSE trades_POST(u.holdingToSell.etfSymbol, u.holdingToSell.buyDate, today,
                        u.holdingToSell.buyPrice, sellPrice, u.holdingToSell.quantity)
    /\ ui' = IF resp'.status = 200
             THEN [u EXCEPT !.pc = "deleting", !.via = via, !.sellPrice = sellPrice,
                            !.alert = NoAlert]
             ELSE [u EXCEPT !.via = via, !.alert = TradeFailedAlert]

\* executeSell from DELETE /api/holdings on; dbFault: the DELETE throws.
executeSellDelete ==
    /\ ui.pc = "deleting"
    /\ \E dbFault \in BOOLEAN :
         /\ holdings_DELETE(ui.holdingToSell.id, dbFault)
         /\ ui' = [ui EXCEPT !.pc = "idle", !.fetching = TRUE,
                             !.sellModalOpen = FALSE, !.holdingToSell = Null,
                             !.sellPrice = 0,
                             !.alert = IF resp'.status = 200 THEN NoAlert
                                       ELSE DeleteFailedAlert]
    /\ UNCHANGED <<today, concVars, fifoVars, mktVars, capVars, calcVars>>

\* confirmSell: SellModal's final confirmation with a price > 0.
confirmSell ==
    /\ ui.pc = "idle" /\ ui.sellModalOpen /\ ui.holdingToSell # Null
    /\ nextTradeId <= MaxTrades
    /\ \E sellPrice \in SellPrices, serverFault \in BOOLEAN :
         IF LimitReached("maxDailySells", "sells")
         THEN /\ ~serverFault
              /\ ui' = [ui EXCEPT !.pendingAction = [kind |-> "sell", sellPrice |-> sellPrice],
                                  !.warningOpen = TRUE, !.sellModalOpen = FALSE]
              /\ UNCHANGED <<dbVars, envVars>>
         ELSE /\ executeSell(sellPrice, "direct", ui, serverFault)
              /\ UNCHANGED today
    /\ UNCHANGED <<concVars, fifoVars, mktVars, capVars, calcVars>>

\* The warning modal's "Yes, Proceed":
\*   if (pendingAction) pendingAction(); setWarningOpen(false); setPendingAction(null)
confirmWarning ==
    /\ ui.warningOpen /\ ui.pendingAction # Null
    /\ LET u == [ui EXCEPT !.warningOpen = FALSE, !.pendingAction = Null] IN
         IF ui.pendingAction.kind = "add"
         THEN submitAddHolding(ui.pendingAction, "warning", u)
         ELSE \E serverFault \in BOOLEAN :
                executeSell(ui.pendingAction.sellPrice, "warning", u, serverFault)
    /\ UNCHANGED <<today, concVars, fifoVars, mktVars, capVars, calcVars>>

\* The warning modal's "Stop": setWarningOpen(false); setPendingAction(null)
stopWarning ==
    /\ ui.warningOpen
    /\ ui' = [ui EXCEPT !.warningOpen = FALSE, !.pendingAction = Null]
    /\ UNCHANGED <<dbVars, envVars, concVars, fifoVars, mktVars, capVars, calcVars>>

\* The earlier page's handleSell up to the end of POST /api/trades, whose
\* response it does not look at.
handleSell ==
    /\ PageFree
    /\ nextTradeId <= MaxTrades
    /\ \E h \in ui.holdings, sellPrice \in SellPrices, serverFault \in BOOLEAN :
         /\ IF serverFault
            THEN trades_POST_catch
            ELSE trades_POST(h.etfSymbol, h.buyDate, today, h.buyPrice, sellPrice, h.quantity)
         /\ ui' = [ui EXCEPT !.pc = "legacyDeleting", !.holdingToSell = h,
                             !.via = "legacy", !.sellPrice = sellPrice, !.alert = NoAlert]
    /\ UNCHANGED <<today, concVars, fifoVars, mktVars, capVars, calcVars>>

\* handleSell from DELETE /api/holdings on; its response is not looked at.
handleSellDelete ==
    /\ ui.pc = "legacyDeleting"
    /\ \E dbFault \in BOOLEAN : holdings_DELETE(ui.holdingToSell.id, dbFault)
    /\ ui' = [ui EXCEPT !.pc = "idle", !.fetching = TRUE, !.holdingToSell = Null,
                        !.sellPrice = 0]
    /\ UNCHANGED <<today, concVars, fifoVars, mktVars, capVars, calcVars>>

\* Midnight passes (the server's and the browser's new Date()).
NextDay == Tick /\ UNCHANGED <<dbVars, ui, concVars, fifoVars, mktVars, capVars, calcVars>>

Init == InitDB /\ InitEnv /\ InitPage /\ InitConc /\ InitFifo /\ InitCap /\ InitMkt /\ InitCalc
Next ==
    \/ fetchData
    \/ handleAddHolding
    \/ handleSellClick
    \/ cancelSell
    \/ confirmSell
    \/ executeSellDelete
    \/ confirmWarning
    \/ stopWarning
    \/ handleSell
    \/ handleSellDelete
    \/ NextDay
Spec == Init /\ [][Next]_vars

\* The configured cap has been reached by a recorded count.
CapReached(count, cap) == Truthy(cap) /\ GreaterEq(count, cap)

\* C2: on the holdings page, with its data refreshed (no fetchData in
\* flight), a purchase whose buy date already has maxDailyBuys recorded buys,
\* and a sell on a day that already has maxDailySells recorded sells, reaches
\* the server only through the warning modal's confirmation; Stop sends
\* nothing and clears the pending action.
C2_WarningBeforeSend ==
    [][ /\ \A h \in holdings' \ holdings :
             (~ui.fetching
                /\ CapReached(BuysOn(daily_activity, h.buy_date), getSettings.maxDailyBuys))
                => ui'.via = "warning"
        /\ \A t \in trades' \ trades :
             (~ui.fetching /\ ui'.pc = "deleting"
                /\ CapReached(SellsOn(daily_activity, t.sell_date), getSettings.maxDailySells))
                => ui'.via = "warning"
        /\ stopWarning => (UNCHANGED <<dbVars, resp>> /\ ui'.pendingAction = Null)
      ]_vars

\* C6: a sell never takes a lot while a newer open lot of the same
\* instrument remains: every trade the sell modal records is of the newest
\* open lot of its instrument.
C6_NewestLotFirst ==
    [][ \A t \in trades' \ trades :
          ui'.pc = "deleting" =>
             \A h \in holdings : h.etf_id = t.etf_id => h.buy_date <= t.buy_date
      ]_vars

\* C9: a sell of one lot from the page records exactly one trade, with the
\* lot's instrument, buy date, buy price and whole quantity, the price the
\* user entered and today's date; profit = (sellPrice - buyPrice) * quantity
\* and holding_days = the whole days from buy date to sell date, below zero
\* when the lot's buy date is after the day of the sale.
C9_SingleLotTrade ==
    [][ (ui.pc = "idle" /\ ui'.pc \in {"deleting", "legacyDeleting"} /\ resp'.status = 200) =>
          LET lot == ui'.holdingToSell IN
          \E t \in trades' :
             /\ t \notin trades /\ trades' = trades \cup {t}
             /\ t.etf_id = lot.etfId
             /\ t.buy_date = lot.buyDate /\ t.buy_price = lot.buyPrice
             /\ t.quantity = lot.quantity
             /\ t.sell_price = ui'.sellPrice /\ t.sell_date = today
             /\ t.profit = (ui'.sellPrice - lot.buyPrice) * lot.quantity
             /\ t.holding_days = today - lot.buyDate
             /\ holdings' = holdings
      ]_vars

\* C9 witness: the modal's sell of a lot dated after today has been recorded
\* at a loss, with holding_days below zero.
C9_Witness ==
    /\ ui.pc = "deleting"
    /\ \E t \in trades : t.holding_days < 0 /\ t.profit < 0 /\ t.sell_price = ui.sellPrice

\* C10: when the sell flow has recorded the trade and the deletion of the lot
\* then fails, the user is told so, nothing is rolled back or retried, and
\* both the trade and the lot are in the database.
C10_DeleteFailureReported ==
    [][ (/\ ui.pc \in {"deleting", "legacyDeleting"}
         /\ resp.route = "POST /api/trades" /\ resp.status = 200
         /\ ui'.pc = "idle" /\ resp'.status # 200) =>
          /\ ui'.alert = DeleteFailedAlert
          /\ trades' = trades /\ holdings' = holdings
          /\ \E h \in holdings' : h.id = ui.holdingToSell.id
          /\ \E t \in trades' : t.id = resp.id
      ]_vars

\* ------------------------------------------------- capital and summaries
\* Rows ever inserted into capital_transactions.
MaxCapitalTx == 2
\* What a capital request names as its type ("" is an absent field, "BONUS"
\* a type the table's CHECK rejects), its amount and its date (0 is an absent
\* date, 1 the first day).
CapitalTypes == {"", "ADD", "WITHDRAW", "BONUS"}
CapitalAmounts == {0 - 20000, 0, 50000}
CapitalDates == {0, 1}
\* Quantities a purchase posted to the API carries (the route checks none).
LotQuantities == {0} \cup Quantities

\* INSERT INTO capital_transactions (type, amount, date, notes): the table
\* after the insert; the CHECK on type is tested by the caller below.
addCapitalTransaction(type, amount, date) ==
    capital_transactions \cup
        {[id |-> nextCapitalId, type |-> type, amount |-> amount, date |-> date]}

\* SELECT id, type, amount, date, notes FROM capital_transactions
getAllCapitalTransactions == capital_transactions

\* POST /api/capital.  !type, !amount and !date are JavaScript falsiness: the
\* empty text, the number 0 and the absent date.  An insert the CHECK on type
\* rejects throws, and the catch answers 500.
capital_POST(type, amount, date) ==
    /\ warned' = FALSE
    /\ IF type = "" \/ amount = 0 \/ date = 0
       THEN /\ resp' = Response("POST /api/capital", 400, 0)
            /\ UNCHANGED capVars
       ELSE IF type \notin {"ADD", "WITHDRAW"}
       THEN /\ resp' = Response("POST /api/capital", 500, 0)
            /\ UNCHANGED capVars
       ELSE /\ capital_transactions' = addCapitalTransaction(type, amount, date)
            /\ nextCapitalId' = nextCapitalId + 1
            /\ resp' = Response("POST /api/capital", 200, nextCapitalId)
    /\ UNCHANGED dbVars

\* SELECT ... FROM trades t JOIN etfs e ON t.etf_id = e.id
getAllTrades == {t \in trades : \E e \in etfs : e.id = t.etf_id}

\* reduce((sum, h) => sum + h.buyPrice * h.quantity, 0)
RECURSIVE SumInvested(_)
SumInvested(rows) ==
    IF rows = {} THEN 0
    ELSE LET h == CHOOSE x \in rows : TRUE
         IN  h.buyPrice * h.quantity + SumInvested(rows \ {h})

\* reduce((sum, t) => sum + t.profit, 0)
RECURSIVE SumProfit(_)
SumProfit(rows) ==
    IF rows = {} THEN 0
    ELSE LET t == CHOOSE x \in rows : TRUE
         IN  t.profit + SumProfit(rows \ {t})

\* reduce((sum, t) => sum + t.amount, 0)
RECURSIVE SumAmount(_)
SumAmount(rows) ==
    IF rows = {} THEN 0
    ELSE LET t == CHOOSE x \in rows : TRUE
         IN  t.amount + SumAmount(rows \ {t})

\* x + n for a number x = num/den and an integer n.
Plus(x, n) == [x EXCEPT !.num = @ + n * x.den]
\* x > 0
Positive(x) == ~x.nan /\ x.num > 0
\* total > 0 ? (invested / total) * 100 : 0
UsedPercent(invested, total) ==
    IF Positive(total)
    THEN [nan |-> FALSE, num |-> invested * 100 * total.den, den |-> total.num]
    ELSE Num(0)

\* Mutant: the available capital leaves the realized profit out.
getCapitalSummary_withoutProfit ==
    LET txs              == getAllCapitalTransactions
        totalAdditions   == Plus(getSettings.totalCapital,
                                 SumAmount({t \in txs : t.type = "ADD"}))
        totalWithdrawals == SumAmount({t \in txs : t.type # "ADD"})
        totalCapital     == Plus(totalAdditions, 0 - totalWithdrawals)
        totalInvested    == SumInvested(getAllHoldings)
        totalRealizedProfit == SumProfit(getAllTrades)
    IN  [totalCapital        |-> totalCapital,
         totalInvested       |-> totalInvested,
         availableCapital    |-> Plus(totalCapital, 0 - totalInvested),
         usedPercent         |-> UsedPercent(totalInvested, totalCapital),
         totalRealizedProfit |-> totalRealizedProfit]

\* store/index.ts getCapitalSummary over the rows the API returns: the base
\* capital counts as an addition, every row that is not an ADD as a withdrawal.
getCapitalSummary ==
    LET txs              == getAllCapitalTransactions
        totalAdditions   == Plus(getSettings.totalCapital,
                                 SumAmount({t \in txs : t.type = "ADD"}))
        totalWithdrawals == SumAmount({t \in txs : t.type # "ADD"})
        totalCapital     == Plus(totalAdditions, 0 - totalWithdrawals)
        totalInvested    == SumInvested(getAllHoldings)
        totalRealizedProfit == SumProfit(getAllTrades)
    IN  [totalCapital        |-> totalCapital,
         totalInvested       |-> totalInvested,
         availableCapital    |-> Plus(totalCapital, totalRealizedProfit - totalInvested),
         usedPercent         |-> UsedPercent(totalInvested, totalCapital),
         totalRealizedProfit |-> totalRealizedProfit]

\* The capital page: fetchData's totals and the figures derived at render
\* (GET /api/settings answers getSettings() plus the day's activity).
CapitalPageSummary ==
    LET transactions     == getAllCapitalTransactions
        totalInvested    == SumInvested(getAllHoldings)
        totalRealizedProfit == SumProfit(getAllTrades)
        totalAdditions   == SumAmount({t \in transactions : t.type = "ADD"})
        totalWithdrawals == SumAmount({t \in transactions : t.type = "WITHDRAW"})
        baseCapital      == OrElse(getSettings.totalCapital, Num(500000))
        netCapital       == Plus(baseCapital, totalAdditions - totalWithdrawals)
    IN  [totalCapital        |-> netCapital,
         totalInvested       |-> totalInvested,
         availableCapital    |-> Plus(netCapital, totalRealizedProfit - totalInvested),
         usedPercent         |-> UsedPercent(totalInvested, netCapital),
         totalRealizedProfit |-> totalRealizedProfit]

\* The strategy page: the summary its mount effect sets from /api/settings,
\* /api/holdings and /api/trades.
StrategyPageSummary ==
    LET settingsData     == getSettings
        totalInvested    == SumInvested(getAllHoldings)
        totalRealizedProfit == SumProfit(getAllTrades)
    IN  [totalCapital        |-> settingsData.totalCapital,
         totalInvested       |-> totalInvested,
         availableCapital    |-> Plus(settingsData.totalCapital,
                                      totalRealizedProfit - totalInvested),
         usedPercent         |-> UsedPercent(totalInvested, settingsData.totalCapital),
         totalRealizedProfit |-> totalRealizedProfit]


\* ------------------------------------------------- lib/calculations.ts
\* Numbers are exact fractions num/den with den > 0 (the record parseFloat
\* yields); the program's IEEE doubles round them.
Frac(n, d) == [nan |-> FALSE, num |-> n, den |-> d]
\* x * (n / d)
Times(x, n, d) == [x EXCEPT !.num = @ * n, !.den = @ * d]
\* x = y, x > y and x >= y as numbers (false when either is NaN).
SameNumber(x, y) == ~x.nan /\ ~y.nan /\ x.num * y.den = y.num * x.den
Greater(x, y) == ~x.nan /\ ~y.nan /\ x.num * y.den > y.num * x.den
AtLeast(x, y) == ~x.nan /\ ~y.nan /\ x.num * y.den >= y.num * x.den

\* Base targets (the seeded 3 and the fallback 6) and usage percentages.
BaseTargets == {3, 6}
UsedPercents == 0..101

\* Mutant: the bands are tested from the lowest edge upward, so every usage
\* above 70 falls into the 0.83 band.
getDynamicProfitTarget_lowestFirst(baseTarget, usedCapitalPercent) ==
    IF usedCapitalPercent > 70 THEN Times(Num(baseTarget), 83, 100)
    ELSE IF usedCapitalPercent > 80 THEN Times(Num(baseTarget), 67, 100)
    ELSE IF usedCapitalPercent > 90 THEN Times(Num(baseTarget), 52, 100)
    ELSE Num(baseTarget)

\* Mutant: the bands include their lower edge (>= 90, >= 80, >= 70).
getDynamicProfitTarget_inclusive(baseTarget, usedCapitalPercent) ==
    IF usedCapitalPercent >= 90 THEN Times(Num(baseTarget), 52, 100)
    ELSE IF usedCapitalPercent >= 80 THEN Times(Num(baseTarget), 67, 100)
    ELSE IF usedCapitalPercent >= 70 THEN Times(Num(baseTarget), 83, 100)
    ELSE Num(baseTarget)

getDynamicProfitTarget(baseTarget, usedCapitalPercent) ==
    IF usedCapitalPercent > 90 THEN Times(Num(baseTarget), 52, 100)
    ELSE IF usedCapitalPercent > 80 THEN Times(Num(baseTarget), 67, 100)
    ELSE IF usedCapitalPercent > 70 THEN Times(Num(baseTarget), 83, 100)
    ELSE Num(baseTarget)

CallGetDynamicProfitTarget ==
    /\ \E baseTarget \in BaseTargets, usedCapitalPercent \in UsedPercents :
          calc' = [fn |-> "getDynamicProfitTarget", baseTarget |-> baseTarget,
                   usedCapitalPercent |-> usedCapitalPercent,
                   result |-> getDynamicProfitTarget(baseTarget, usedCapitalPercent)]
    /\ UNCHANGED <<dbVars, envVars, ui, concVars, fifoVars, mktVars, capVars>>

\* x + y and x * y for finite numbers.
Sum(x, y) == [nan |-> x.nan \/ y.nan, num |-> x.num * y.den + y.num * x.den,
              den |-> x.den * y.den]
Product(x, y) == [nan |-> x.nan \/ y.nan, num |-> x.num * y.num, den |-> x.den * y.den]
\* x / n for a finite number x and an integer n >= 0.  Division by zero
\* throws nothing in JavaScript: it yields NaN for 0 / 0 and otherwise
\* +Infinity or -Infinity, written here as the fractions 1/0 and -1/0.
Infinity == [nan |-> FALSE, num |-> 1, den |-> 0]
MinusInfinity == [nan |-> FALSE, num |-> 0 - 1, den |-> 0]
Div(x, n) ==
    IF n # 0 THEN [x EXCEPT !.den = @ * n]
    ELSE IF x.nan \/ x.num = 0 THEN [nan |-> TRUE, num |-> 0, den |-> 1]
    ELSE IF x.num > 0 THEN Infinity ELSE MinusInfinity
IsFinite(x) == ~x.nan /\ x.den # 0
\* Math.max(a, b): NaN when either argument is NaN.
MathMax(a, b) ==
    IF a.nan \/ b.nan THEN [nan |-> TRUE, num |-> 0, den |-> 1]
    ELSE IF Greater(b, a) THEN b ELSE a
\* Math.min(a, b)
MathMin(a, b) ==
    IF a.nan \/ b.nan THEN [nan |-> TRUE, num |-> 0, den |-> 1]
    ELSE IF Greater(b, a) THEN a ELSE b

\* Average prices, pooled quantities (0 among them: the function checks
\* nothing) and the two settings calculateTargetPrice is evaluated with.
AvgPrices == {0, 10, 2500}
PooledQuantities == {0, 1, 3, 4}
TargetPercents == {0, 3, 6}
MinProfits == {0, 300, 500}

\* Mutant: the smaller of the two targets.
calculateTargetPrice_min(avgPrice, quantity, cfg) ==
    LET targetByPercent   == Product(avgPrice,
                                 Sum(Num(1), Times(cfg.profitTargetPercent, 1, 100)))
        targetByMinProfit == Div(Sum(Times(avgPrice, quantity, 1), cfg.minProfitAmount),
                                 quantity)
    IN  MathMin(targetByPercent, targetByMinProfit)

calculateTargetPrice(avgPrice, quantity, cfg) ==
    LET targetByPercent   == Product(avgPrice,
                                 Sum(Num(1), Times(cfg.profitTargetPercent, 1, 100)))
        targetByMinProfit == Div(Sum(Times(avgPrice, quantity, 1), cfg.minProfitAmount),
                                 quantity)
    IN  MathMax(targetByPercent, targetByMinProfit)

CallCalculateTargetPrice ==
    /\ \E avgPrice \in AvgPrices, quantity \in PooledQuantities,
          pct \in TargetPercents, minProfit \in MinProfits :
          calc' = [fn |-> "calculateTargetPrice", avgPrice |-> avgPrice,
                   quantity |-> quantity,
                   profitTargetPercent |-> pct, minProfitAmount |-> minProfit,
                   result |-> calculateTargetPrice(Num(avgPrice), quantity,
                                 [profitTargetPercent |-> Num(pct),
                                  minProfitAmount |-> Num(minProfit)])]
    /\ UNCHANGED <<dbVars, envVars, ui, concVars, fifoVars, mktVars, capVars>>

MaxGroup == 2
GroupPrices == {10, 11, 14}
GroupQuantities == {0, 1, 3}
LotGroups ==
    UNION {[1..n -> [buyPrice : GroupPrices, quantity : GroupQuantities]] : n \in 0..MaxGroup}
\* The lots of a group as rows (the index serves as id).
GroupRows(g) == {[id |-> i, buyPrice |-> g[i].buyPrice, quantity |-> g[i].quantity]
                    : i \in DOMAIN g}

\* reduce((sum, h) => sum + h.quantity, 0)
RECURSIVE SumQuantity(_)
SumQuantity(rows) ==
    IF rows = {} THEN 0
    ELSE LET h == CHOOSE x \in rows : TRUE
         IN  h.quantity + SumQuantity(rows \ {h})

RECURSIVE SumPrice(_)
SumPrice(rows) ==
    IF rows = {} THEN 0
    ELSE LET h == CHOOSE x \in rows : TRUE
         IN  h.buyPrice + SumPrice(rows \ {h})

\* Mutant: the plain mean of the lot prices.
calculateAveragePrice_unweighted(rows) ==
    IF rows = {} THEN Num(0)
    ELSE LET totalQty == SumQuantity(rows)
         IN  IF totalQty > 0 THEN Frac(SumPrice(rows), Cardinality(rows)) ELSE Num(0)

calculateAveragePrice(rows) ==
    IF rows = {} THEN Num(0)
    ELSE LET totalValue == SumInvested(rows)
             totalQty   == SumQuantity(rows)
         IN  IF totalQty > 0 THEN Frac(totalValue, totalQty) ELSE Num(0)

CallCalculateAveragePrice ==
    /\ \E g \in LotGroups :
          calc' = [fn |-> "calculateAveragePrice", group |-> g,
                   result |-> calculateAveragePrice(GroupRows(g))]
    /\ UNCHANGED <<dbVars, envVars, ui, concVars, fifoVars, mktVars, capVars>>

LastBuyPrices == {0, 20, 100}
CurrentPrices == 0..105

\* ((lastBuyPrice - currentPrice) / lastBuyPrice) * 100
dropPercent(lastBuyPrice, currentPrice) ==
    Times(Div(Num(lastBuyPrice - currentPrice), lastBuyPrice), 100, 1)

\* Mutant: the drop is compared with the averagingThreshold setting.
shouldAverage_configurable(lastBuyPrice, currentPrice) ==
    Greater(dropPercent(lastBuyPrice, currentPrice), getSettings.averagingThreshold)

shouldAverage(lastBuyPrice, currentPrice) ==
    Greater(dropPercent(lastBuyPrice, currentPrice), Num(5))

shouldSIP(lastBuyPrice, currentPrice) ==
    Greater(dropPercent(lastBuyPrice, currentPrice), Num(10))

CallShouldAverage ==
    /\ \E lastBuyPrice \in LastBuyPrices, currentPrice \in CurrentPrices :
          calc' = [fn |-> "shouldAverage", lastBuyPrice |-> lastBuyPrice,
                   currentPrice |-> currentPrice,
                   result |-> shouldAverage(lastBuyPrice, currentPrice)]
    /\ UNCHANGED <<dbVars, envVars, ui, concVars, fifoVars, mktVars, capVars>>

CallShouldSIP ==
    /\ \E lastBuyPrice \in LastBuyPrices, currentPrice \in CurrentPrices :
          calc' = [fn |-> "shouldSIP", lastBuyPrice |-> lastBuyPrice,
                   currentPrice |-> currentPrice,
                   result |-> shouldSIP(lastBuyPrice, currentPrice)]
    /\ UNCHANGED <<dbVars, envVars, ui, concVars, fifoVars, mktVars, capVars>>

\* C15: shouldAverage is true exactly when the drop from the last purchase
\* price, in percent of it, is strictly greater than 5, and shouldSIP exactly
\* when it is strictly greater than 10, whatever averagingThreshold is set
\* (2.5 here): (100, 95) does not average, (100, 94) does.
C15_FixedThresholds ==
    LET last == calc.lastBuyPrice
        cur  == calc.currentPrice
    IN  /\ calc.fn = "shouldAverage" =>
              /\ calc.result <=> (last > 0 /\ (last - cur) * 100 > 5 * last)
              /\ (last = 100 /\ cur = 95) => ~calc.result
              /\ (last = 100 /\ cur = 94) => calc.result
        /\ calc.fn = "shouldSIP" =>
              calc.result <=> (last > 0 /\ (last - cur) * 100 > 10 * last)

\* A drop of 4%, above the configured 2.5% and below the fixed 5%, gives no
\* averaging signal.
C15_Witness ==
    /\ calc.fn = "shouldAverage"
    /\ calc.lastBuyPrice = 100 /\ calc.currentPrice = 96
    /\ ~calc.result
    /\ Greater(dropPercent(100, 96), getSettings.averagingThreshold)

\* C12 as stated: with base 6 the dynamic target is 3.12 at 91% used, and the
\* base itself, 6, at exactly 90% and at 50%.
C12_BaseAtNinety ==
    (calc.fn = "getDynamicProfitTarget" /\ calc.baseTarget = 6) =>
        /\ calc.usedCapitalPercent = 91 => SameNumber(calc.result, Frac(312, 100))
        /\ calc.usedCapitalPercent = 90 => SameNumber(calc.result, Num(6))
        /\ calc.usedCapitalPercent = 50 => SameNumber(calc.result, Num(6))

\* C12 amended: with base 6 the dynamic target is 3.12 (6 x 0.52) at 91% used,
\* 4.02 (6 x 0.67) at exactly 90% -- the >90 band is not entered, the >80 band
\* is -- and the base, 6, at 50%; in general the band is chosen by strict
\* comparisons with 90, 80 and 70.
C12_DynamicTarget ==
    calc.fn = "getDynamicProfitTarget" =>
        LET b == Num(calc.baseTarget)
            u == calc.usedCapitalPercent
        IN  /\ u > 90 => SameNumber(calc.result, Times(b, 52, 100))
            /\ (u > 80 /\ u <= 90) => SameNumber(calc.result, Times(b, 67, 100))
            /\ (u > 70 /\ u <= 80) => SameNumber(calc.result, Times(b, 83, 100))
            /\ u <= 70 => SameNumber(calc.result, b)
            /\ (calc.baseTarget = 6 /\ u = 91) => SameNumber(calc.result, Frac(312, 100))
            /\ (calc.baseTarget = 6 /\ u = 90) => SameNumber(calc.result, Frac(402, 100))
            /\ (calc.baseTarget = 6 /\ u = 50) => SameNumber(calc.result, Num(6))

C12_Witness ==
    /\ calc.fn = "getDynamicProfitTarget"
    /\ calc.baseTarget = 6 /\ calc.usedCapitalPercent = 90
    /\ SameNumber(calc.result, Frac(402, 100))

InitCalcs == InitDB /\ InitEnv /\ InitUI /\ InitConc /\ InitFifo /\ InitCap /\ InitMkt /\ InitCalc

NextCalc ==
    \/ CallGetDynamicProfitTarget
    \/ CallCalculateTargetPrice
    \/ CallCalculateAveragePrice
    \/ CallShouldAverage
    \/ CallShouldSIP

SpecCalc == InitCalcs /\ [][NextCalc]_vars

\* ------------------------------------------------ derived views of pages
\* The current market price the ETF list carries for an instrument; 0 stands
\* for null (no market data yet), which the code treats alike (falsy).
MarketPrices == {0, 9, 10}
\* Thresholds a settings PUT supplies (0 is stored and read back as 2.5).
ThresholdValues == {0, 10}

\* The lots of one instrument among the rows GET /api/holdings answers.
LotsOf(symbol) == {h \in getAllHoldings : h.etfSymbol = symbol}
\* ORDER BY h.buy_date DESC names no second key: any lot of the latest date
\* may come first.
FirstListed(rows) ==
    IF rows = {} THEN {Null} ELSE {h \in rows : \A x \in rows : x.buyDate <= h.buyDate}
\* For every instrument, the lot its group lists first (Null when it has none).
FirstLots ==
    {f \in [SeedSymbols -> UNION {FirstListed(LotsOf(sym)) : sym \in SeedSymbols}] :
        \A sym \in SeedSymbols : f[sym] \in FirstListed(LotsOf(sym))}

\* Mutant: an instrument whose drop equals the threshold is hidden too.
filterETF_strict(etfHoldings, latestHolding, cmp) ==
    IF etfHoldings # {} /\ Truthy(getSettings.averagingThreshold) /\ cmp # 0
    THEN Greater(dropPercent(latestHolding.buyPrice, cmp), getSettings.averagingThreshold)
    ELSE TRUE

\* The averaging-threshold part of the ETF list's filter (the search box and
\* the category selector left at their defaults): false hides the instrument.
filterETF(etfHoldings, latestHolding, cmp) ==
    IF etfHoldings # {} /\ Truthy(getSettings.averagingThreshold) /\ cmp # 0
    THEN ~Greater(getSettings.averagingThreshold, dropPercent(latestHolding.buyPrice, cmp))
    ELSE TRUE

\* store getHoldingsWithCalculations, one row per lot.
getHoldingsWithCalculations(latest, marketPrice) ==
    {LET etfHoldings   == LotsOf(holding.etfSymbol)
         avgPrice      == calculateAveragePrice(etfHoldings)
         totalQuantity == SumQuantity(etfHoldings)
         cmp           == IF marketPrice # 0 THEN marketPrice ELSE holding.buyPrice
         first         == latest[holding.etfSymbol]
         lastBuyPrice  == IF first.buyPrice # 0 THEN first.buyPrice ELSE holding.buyPrice
     IN  [id |-> holding.id, buyPrice |-> holding.buyPrice,
          cmp |-> cmp, avgPrice |-> avgPrice,
          totalQuantity |-> totalQuantity,
          targetPrice |-> calculateTargetPrice(avgPrice, totalQuantity, getSettings),
          notionalPLPercent |->
              Times(Div(Num(cmp - holding.buyPrice), holding.buyPrice), 100, 1),
          shouldAverage |-> shouldAverage(lastBuyPrice, cmp),
          shouldSIP |-> shouldSIP(lastBuyPrice, cmp)]
        : holding \in getAllHoldings}

\* --------------------------------- the portfolio as the API and pages see it
PortfolioPostCapital ==
    /\ nextCapitalId <= MaxCapitalTx
    /\ \E type \in CapitalTypes, amount \in CapitalAmounts, date \in CapitalDates :
          capital_POST(type, amount, date)
    /\ UNCHANGED <<today, ui, concVars, fifoVars, mktVars, calcVars>>

PortfolioPostHolding ==
    /\ nextHoldingId <= MaxLots
    /\ \E d \in Dates, p \in BuyPrices \cup EditPrices, q \in LotQuantities :
          holdings_POST("GOLDBEES", d, p, q)
    /\ UNCHANGED <<today, ui, concVars, fifoVars, mktVars, capVars, calcVars>>

PortfolioPostTrade ==
    /\ nextTradeId <= MaxTrades
    /\ \E bp \in BuyPrices, sp \in SellPrices, q \in Quantities :
          trades_POST("GOLDBEES", today, today, bp, sp, q)
    /\ UNCHANGED <<today, ui, concVars, fifoVars, mktVars, capVars, calcVars>>

PortfolioPutSettings ==
    /\ \E v \in ThresholdValues : settings_PUT([averagingThreshold |-> v])
    /\ UNCHANGED <<today, ui, concVars, fifoVars, mktVars, capVars, calcVars>>

\* Purchase prices of the lots the views are computed for; the route checks
\* no field, so a price of 0 is stored like any other.
LotPrices == {0} \cup BuyPrices \cup EditPrices

ViewsPostHolding ==
    /\ nextHoldingId <= MaxLots
    /\ \E d \in Dates, p \in LotPrices, q \in LotQuantities :
          holdings_POST("GOLDBEES", d, p, q)
    /\ UNCHANGED <<today, ui, concVars, fifoVars, mktVars, capVars, calcVars>>

\* The store's holdings view is computed from the rows the API answers.
PortfolioViewHoldings ==
    /\ \E cmp \in MarketPrices, latest \in FirstLots :
          calc' = [fn |-> "getHoldingsWithCalculations",
                   rows |-> getHoldingsWithCalculations(latest, cmp)]
    /\ UNCHANGED <<dbVars, envVars, ui, concVars, fifoVars, mktVars, capVars>>

\* The ETF list page renders: which instruments pass the filter.
PortfolioViewETFs ==
    /\ \E cmp \in MarketPrices, latest \in FirstLots :
          calc' = [fn |-> "filteredETFs", holdings |-> getAllHoldings,
                   averagingThreshold |-> getSettings.averagingThreshold,
                   cmp |-> cmp, latest |-> latest,
                   shown |-> {e.symbol : e \in
                                {x \in etfs : filterETF(LotsOf(x.symbol), latest[x.symbol], cmp)}}]
    /\ UNCHANGED <<dbVars, envVars, ui, concVars, fifoVars, mktVars, capVars>>

InitPortfolio == InitDB /\ InitEnv /\ InitUI /\ InitConc /\ InitFifo /\ InitCap /\ InitMkt /\ InitCalc

NextPortfolio ==
    \/ PortfolioPostCapital
    \/ PortfolioPostHolding
    \/ PortfolioPostTrade

SpecPortfolio == InitPortfolio /\ [][NextPortfolio]_vars

\* Lots, the threshold setting and the views pages derive from them.
NextViews ==
    \/ ViewsPostHolding
    \/ PortfolioPutSettings
    \/ PortfolioViewHoldings
    \/ PortfolioViewETFs

SpecViews == InitPortfolio /\ [][NextViews]_vars

\* The figures the formulas give for the stored data.
ExpectedSummary ==
    LET adds      == SumAmount({t \in capital_transactions : t.type = "ADD"})
        withdraws == SumAmount({t \in capital_transactions : t.type = "WITHDRAW"})
        invested  == SumInvested(getAllHoldings)
        realized  == SumProfit(getAllTrades)
        net       == Plus(getSettings.totalCapital, adds - withdraws)
    IN  [totalCapital        |-> net,
         totalInvested       |-> invested,
         availableCapital    |-> Plus(net, realized - invested),
         usedPercent         |-> UsedPercent(invested, net),
         totalRealizedProfit |-> realized]

\* C11: the store summary, the capital page and the strategy page all show
\* netCapital = base + ADDs - WITHDRAWs, availableCapital = netCapital -
\* invested + realized profit, and usedPercent = invested / netCapital * 100
\* (0 when netCapital <= 0) for the data stored at that moment (every stored
\* amount being positive, as the data model has it).
C11_SummariesAgree ==
    (\A t \in capital_transactions : t.amount > 0) =>
        /\ getCapitalSummary = ExpectedSummary
        /\ CapitalPageSummary = ExpectedSummary
        /\ StrategyPageSummary = ExpectedSummary

\* C14: whenever the holdings view evaluates calculateTargetPrice, the pooled
\* quantity it passes is > 0 (the function has no error exit, so failing fast
\* is not among its outcomes): the target price of every row is a finite number.
C14_PositivePooledQuantity ==
    calc.fn = "getHoldingsWithCalculations" =>
        \A r \in calc.rows : r.totalQuantity > 0 /\ IsFinite(r.targetPrice)

\* The lots the list was computed from, and the price of the one listed first.
ListedLots(sym) == {h \in calc.holdings : h.etfSymbol = sym}
LatestPrice(sym) == calc.latest[sym].buyPrice

\* C16: in the ETF list an instrument with open lots and a current price is
\* shown exactly when the drop from the price of its most recent lot to the
\* current price, in percent, is >= the configured averagingThreshold; an
\* instrument without open lots is always shown.
C16_ThresholdGate ==
    calc.fn = "filteredETFs" =>
        \A sym \in SeedSymbols :
            /\ ListedLots(sym) = {} => sym \in calc.shown
            /\ (ListedLots(sym) # {} /\ calc.cmp # 0) =>
                  /\ calc.latest[sym] \in ListedLots(sym)
                  /\ \A h \in ListedLots(sym) : h.buyDate <= calc.latest[sym].buyDate
                  /\ sym \in calc.shown <=>
                        AtLeast(Frac((LatestPrice(sym) - calc.cmp) * 100, LatestPrice(sym)),
                                calc.averagingThreshold)

\* Threshold 10: the latest lot was bought at 10, an older one at 11, the
\* price is 9; the drop from the latest lot is exactly 10% and the instrument
\* is shown.
C16_Witness ==
    /\ calc.fn = "filteredETFs" /\ calc.cmp = 9
    /\ SameNumber(calc.averagingThreshold, Num(10))
    /\ Cardinality(ListedLots("GOLDBEES")) = 2
    /\ \E old \in ListedLots("GOLDBEES") :
          old.buyPrice = 11 /\ old.buyDate < calc.latest["GOLDBEES"].buyDate
    /\ LatestPrice("GOLDBEES") = 10
    /\ "GOLDBEES" \in calc.shown

\* C20: every stored capital transaction has type ADD or WITHDRAW and an
\* amount strictly greater than 0.
C20_PositiveAmounts ==
    \A t \in capital_transactions : t.type \in {"ADD", "WITHDRAW"} /\ t.amount > 0

\* ------------------------------------ one lot and the trades of its sales
\* A lot is bought, corrected, sold in parts and deleted while settings
\* change and trades are recorded and deleted.
LedgerPostHolding ==
    /\ nextHoldingId = 1
    /\ \E d \in Dates, p \in BuyPrices, q \in Quantities : holdings_POST("GOLDBEES", d, p, q)
    /\ UNCHANGED <<today, ui, concVars, fifoVars, mktVars, capVars, calcVars>>

LedgerPutHolding ==
    /\ \E h \in holdings, p \in EditPrices, q \in EditQuantities :
          holdings_PUT(h.id, p, q, h.buy_date)
    /\ UNCHANGED <<today, ui, concVars, fifoVars, mktVars, capVars, calcVars>>

LedgerDeleteHolding ==
    /\ \E h \in holdings : holdings_DELETE(h.id, FALSE)
    /\ UNCHANGED <<today, ui, concVars, fifoVars, mktVars, capVars, calcVars>>

LedgerPostTrade ==
    /\ nextTradeId <= MaxTrades + 1
    /\ \E bd \in Dates, sd \in Dates, bp \in BuyPrices, sp \in SellPrices, q \in Quantities :
          bd <= sd /\ trades_POST("GOLDBEES", bd, sd, bp, sp, q)
    /\ UNCHANGED <<today, ui, concVars, fifoVars, mktVars, capVars, calcVars>>

LedgerDeleteTrade ==
    /\ \E t \in trades : trades_DELETE(t.id)
    /\ UNCHANGED <<today, ui, concVars, fifoVars, mktVars, capVars, calcVars>>

LedgerPutSettings ==
    /\ \E v \in TargetPercents \ {0} : settings_PUT([profitTargetPercent |-> v])
    /\ UNCHANGED <<today, ui, concVars, fifoVars, mktVars, capVars, calcVars>>

NextLedger ==
    \/ LedgerPostHolding
    \/ LedgerPutHolding
    \/ LedgerDeleteHolding
    \/ LedgerPostTrade
    \/ LedgerDeleteTrade
    \/ LedgerPutSettings

SpecLedger == InitAPI /\ [][NextLedger]_vars

\* C19: no operation changes a field of a trade that exists: across every
\* step a trade row either stays exactly as it was stored or is gone
\* (deleted); its profit, profit_percent and holding_days are the values
\* addTrade computed.
C19_TradesImmutable ==
    [][\A t \in trades : \A u \in trades' : u.id = t.id => u = t]_vars

\* A trade was recorded, then another one, and the lot was corrected
\* afterwards: the first trade still carries the original purchase price.
C19_Witness ==
    /\ resp.route = "PUT /api/holdings"
    /\ Cardinality(trades) = 2
    /\ \E h \in holdings : h.buy_price \in EditPrices
    /\ \A t \in trades : t.buy_price \in BuyPrices /\ t.profit = (t.sell_price - t.buy_price) * t.quantity

\* ------------------------------------------------------- calculateXIRR
\* Cash flows handed to calculateXIRR (their dates, signs and amounts are any).
MaxFlows == 3
\* for (let i = 0; i < 100; i++)
MaxIterations == 100

\* What the floating-point arithmetic of one iteration can come to, for some
\* cash flows: the derivative is nearly 0 ("flat": |fPrime| < 1e-10), the step
\* is tiny ("converged": |newRate - rate| < 1e-7), neither ("continue"), or
\* neither because the new estimate is NaN ("nan": a comparison with NaN is
\* false).  Once the estimate is NaN, f, fPrime and newRate are NaN too.
IterationOutcomes == IF calc.nan THEN {"continue"} ELSE {"flat", "converged", "continue", "nan"}

\* The estimates are named by their order: 0 is the initial guess 0.1, k the
\* k-th newRate.  What is returned is 100 times an estimate, or the number 0.
XirrResult(kind, estimate, nan) == [kind |-> kind, estimate |-> estimate, nan |-> nan]

\* The call up to the loop: lines 108-140.
XirrCall ==
    /\ IF calc.fn = "calculateXIRR" THEN calc.pc = "returned" ELSE TRUE
    /\ \E n \in 0..MaxFlows :
          LET allFlows == n + 1
          IN  calc' = IF n = 0 \/ allFlows < 2
                      THEN [fn |-> "calculateXIRR", flows |-> n, pc |-> "returned", i |-> 0,
                            rate |-> 0, nan |-> FALSE, result |-> XirrResult("zero", 0, FALSE)]
                      ELSE [fn |-> "calculateXIRR", flows |-> n, pc |-> "loop", i |-> 0,
                            rate |-> 0, nan |-> FALSE, result |-> XirrResult("none", 0, FALSE)]
    /\ UNCHANGED <<dbVars, envVars, ui, concVars, fifoVars, mktVars, capVars>>

\* Mutant: the loop counter is not advanced (a loop without the cap).
XirrIterate_uncapped ==
    /\ calc.fn = "calculateXIRR" /\ calc.pc = "loop"
    /\ IF calc.i < MaxIterations
       THEN \E outcome \in IterationOutcomes :
              calc' = CASE outcome = "flat" ->
                             [calc EXCEPT !.pc = "returned",
                                          !.result = XirrResult("percent", calc.rate, calc.nan)]
                        [] outcome = "converged" ->
                             [calc EXCEPT !.pc = "returned",
                                          !.result = XirrResult("percent", calc.rate + 1, FALSE)]
                        [] outcome = "continue" -> calc
                        [] outcome = "nan" -> [calc EXCEPT !.nan = TRUE]
       ELSE calc' = [calc EXCEPT !.pc = "returned",
                                 !.result = XirrResult("percent", calc.rate, calc.nan)]
    /\ UNCHANGED <<dbVars, envVars, ui, concVars, fifoVars, mktVars, capVars>>

\* One pass of the loop of lines 141-154, or, when i has reached the cap, the
\* return of line 156.
XirrIterate ==
    /\ calc.fn = "calculateXIRR" /\ calc.pc = "loop"
    /\ IF calc.i < MaxIterations
       THEN \E outcome \in IterationOutcomes :
              calc' = CASE outcome = "flat" ->
                             [calc EXCEPT !.pc = "returned",
                                          !.result = XirrResult("percent", calc.rate, calc.nan)]
                        [] outcome = "converged" ->
                             [calc EXCEPT !.pc = "returned",
                                          !.result = XirrResult("percent", calc.rate + 1, FALSE)]
                        [] outcome = "continue" ->
                             [calc EXCEPT !.rate = @ + 1, !.i = @ + 1]
                        [] outcome = "nan" ->
                             [calc EXCEPT !.rate = @ + 1, !.i = @ + 1, !.nan = TRUE]
       ELSE calc' = [calc EXCEPT !.pc = "returned",
                                 !.result = XirrResult("percent", calc.rate, calc.nan)]
    /\ UNCHANGED <<dbVars, envVars, ui, concVars, fifoVars, mktVars, capVars>>

NextXIRR ==
    \/ XirrCall
    \/ XirrIterate

\* A call that has started keeps running: JavaScript runs it to completion.
SpecXIRR == InitCalcs /\ [][NextXIRR]_vars /\ WF_vars(XirrIterate)

\* Within a call: at most 100 passes; no cash flows return 0 at once;
\* otherwise the result is 100 times the latest estimate.
XirrBounded ==
    calc.fn = "calculateXIRR" =>
        /\ calc.i <= MaxIterations
        /\ calc.rate = calc.i
        /\ (calc.pc = "returned" /\ calc.flows = 0) =>
              calc.i = 0 /\ calc.result.kind = "zero"
        /\ (calc.pc = "returned" /\ calc.flows > 0) =>
              /\ calc.result.kind = "percent"
              /\ calc.result.estimate \in {calc.i, calc.i + 1}
              /\ calc.result.estimate = calc.i + 1 => calc.i < MaxIterations

\* C18: calculateXIRR always returns: with no cash flows it returns 0 without
\* iterating, otherwise it makes at most 100 Newton-Raphson passes, stops
\* early on a flat derivative or a tiny step, and returns its last estimate
\* as a percentage whether or not it converged.
C18_Terminates ==
    /\ []XirrBounded
    /\ (calc.fn = "calculateXIRR" /\ calc.pc = "loop") ~>
           (calc.fn = "calculateXIRR" /\ calc.pc = "returned")

\* The cap is what ended the call: 100 passes, none of which stopped early.
C18_Witness ==
    /\ calc.fn = "calculateXIRR" /\ calc.pc = "returned"
    /\ calc.i = MaxIterations
    /\ calc.result = XirrResult("percent", MaxIterations, FALSE)

\* ------------------------------------------------------------ settings
\* C22: while no setting has been updated, getSettings returns
\* profitTargetPercent 6, minProfitAmount 500, perTransactionAmount 10000,
\* totalCapital 500000, minVolume 15000, averagingThreshold 2.5,
\* maxDailyBuys 1 and maxDailySells 1.
C22_DocumentedDefaults ==
    settings = defaultSettings =>
        /\ SameNumber(getSettings.profitTargetPercent, Num(6))
        /\ SameNumber(getSettings.minProfitAmount, Num(500))
        /\ SameNumber(getSettings.perTransactionAmount, Num(10000))
        /\ SameNumber(getSettings.totalCapital, Num(500000))
        /\ SameNumber(getSettings.minVolume, Num(15000))
        /\ SameNumber(getSettings.averagingThreshold, Frac(25, 10))
        /\ SameNumber(getSettings.maxDailyBuys, Num(1))
        /\ SameNumber(getSettings.maxDailySells, Num(1))


\* C21: a PUT /api/settings that supplies numeric values for some of the
\* fields makes the following read return exactly the supplied value for
\* each supplied field (0 included) and the previous value for every field
\* that was not supplied.
C21_ReadBackSupplied ==
    [][\A body \in SettingsBodies :
          (resp'.route = "PUT /api/settings" /\ settings_PUT(body)) =>
              \A f \in DOMAIN getSettings :
                  IF f \in DOMAIN body
                  THEN SameNumber(getSettings'[f], Num(body[f]))
                  ELSE getSettings'[f] = getSettings[f]]_vars

\* The same statement for values other than 0, read off the stored rows of
\* the two fields the requests supply.
C21_ReadBackNonZero ==
    [][\A body \in SettingsBodies :
          (resp'.route = "PUT /api/settings" /\ settings_PUT(body)) =>
              /\ ("maxDailyBuys" \in DOMAIN body /\ body["maxDailyBuys"] # 0) =>
                    SameNumber(OrElse(parseFloat(settings'["max_daily_buys"]), Num(1)),
                               Num(body["maxDailyBuys"]))
              /\ ("maxDailySells" \in DOMAIN body /\ body["maxDailySells"] # 0) =>
                    SameNumber(OrElse(parseFloat(settings'["max_daily_sells"]), Num(1)),
                               Num(body["maxDailySells"]))
              /\ "maxDailyBuys" \notin DOMAIN body =>
                    settings'["max_daily_buys"] = settings["max_daily_buys"]
              /\ "maxDailySells" \notin DOMAIN body =>
                    settings'["max_daily_sells"] = settings["max_daily_sells"]
              /\ \A k \in SettingKeys \ {"max_daily_buys", "max_daily_sells"} :
                    settings'[k] = settings[k]]_vars

\* C25: a PUT /api/holdings for a lot with a new buyPrice, quantity and
\* buyDate makes the stored lot carry all three new values, the purchase
\* date included, and changes no other lot.
C25_EditStoresAllThree ==
    [][\A h \in holdings, p \in EditPrices, q \in EditQuantities, d \in Dates :
          (resp'.route = "PUT /api/holdings" /\ holdings_PUT(h.id, p, q, d)) =>
              /\ \E u \in holdings' :
                    /\ u.id = h.id
                    /\ u.buy_price = p /\ u.quantity = q /\ u.buy_date = d
              /\ \A o \in holdings : o.id # h.id => o \in holdings']_vars

\* The same statement without the purchase date.
C25_EditStoresPriceAndQuantity ==
    [][\A h \in holdings, p \in EditPrices, q \in EditQuantities, d \in Dates :
          (resp'.route = "PUT /api/holdings" /\ holdings_PUT(h.id, p, q, d)) =>
              /\ \E u \in holdings' :
                    /\ u.id = h.id
                    /\ u.buy_price = p /\ u.quantity = q /\ u.buy_date = h.buy_date
              /\ \A o \in holdings : o.id # h.id => o \in holdings']_vars


\* C27: getDynamicProfitTarget(base, u) is base * 0.52 exactly when u > 90,
\* base * 0.67 exactly when 80 < u <= 90, base * 0.83 exactly when
\* 70 < u <= 80, and base exactly when u <= 70.
C27_Bands ==
    calc.fn = "getDynamicProfitTarget" =>
        LET b == calc.baseTarget
            u == calc.usedCapitalPercent
            r == calc.result
        IN  /\ SameNumber(r, Frac(b * 52, 100)) <=> u > 90
            /\ SameNumber(r, Frac(b * 67, 100)) <=> (80 < u /\ u <= 90)
            /\ SameNumber(r, Frac(b * 83, 100)) <=> (70 < u /\ u <= 80)
            /\ SameNumber(r, Num(b)) <=> u <= 70

\* The function was evaluated at the upper edge of the 0.67 band.
C27_Witness ==
    /\ calc.fn = "getDynamicProfitTarget"
    /\ calc.usedCapitalPercent = 90
    /\ calc.baseTarget = 3
    /\ SameNumber(calc.result, Frac(201, 100))


\* C26: the notionalPLPercent of a lot in the holdings view is
\* (cmp - price) / price * 100, and 0 when the purchase price is 0; it is
\* always a finite number.
C26_FinitePercent ==
    calc.fn = "getHoldingsWithCalculations" =>
        \A row \in calc.rows :
            /\ IsFinite(row.notionalPLPercent)
            /\ IF row.buyPrice = 0
               THEN SameNumber(row.notionalPLPercent, Num(0))
               ELSE SameNumber(row.notionalPLPercent,
                               Frac((row.cmp - row.buyPrice) * 100, row.buyPrice))

\* The same statement for lots with a purchase price other than 0.
C26_PercentOfPricedLots ==
    calc.fn = "getHoldingsWithCalculations" =>
        \A row \in calc.rows :
            row.buyPrice # 0 =>
                /\ IsFinite(row.notionalPLPercent)
                /\ SameNumber(row.notionalPLPercent,
                              Frac((row.cmp - row.buyPrice) * 100, row.buyPrice))


\* C28: in every sell flow of the holdings page the lot is deleted only if
\* the request that records the trade succeeded; after an error response to
\* that request the lot stays open.
C28_DeleteOnlyAfterTrade ==
    [][ (ui.pc \in {"deleting", "legacyDeleting"} /\ holdings' # holdings) =>
          (resp.route = "POST /api/trades" /\ resp.status = 200)
      ]_vars

\* The same statement for the sell modal's flow (executeSell) alone.
C28_ModalDeleteOnlyAfterTrade ==
    [][ (ui.pc = "deleting" /\ resp'.route = "DELETE /api/holdings") =>
          (resp.route = "POST /api/trades" /\ resp.status = 200)
      ]_vars

\* ------------------------------------------ a sell seen in the summary
\* The summary is read while the page is at rest; the rows it was computed
\* from are kept with it.
PageViewSummary ==
    /\ PageFree
    /\ calc' = [fn |-> "getCapitalSummary", summary |-> getCapitalSummary,
                holdings |-> holdings, trades |-> trades]
    /\ UNCHANGED <<dbVars, envVars, ui, concVars, fifoVars, mktVars, capVars>>

NextSell ==
    \/ fetchData
    \/ handleAddHolding
    \/ handleSellClick
    \/ cancelSell
    \/ confirmSell
    \/ executeSellDelete
    \/ confirmWarning
    \/ stopWarning
    \/ PageViewSummary

SpecSell == Init /\ [][NextSell]_vars

\* The store differs from the rows of the last summary by one complete sell
\* of lot h, recorded as trade t.
CompleteSell(h, t) ==
    /\ h \in calc.holdings /\ holdings = calc.holdings \ {h}
    /\ t \notin calc.trades /\ trades = calc.trades \cup {t}
    /\ t.etf_id = h.etf_id /\ t.buy_date = h.buy_date
    /\ t.buy_price = h.buy_price /\ t.quantity = h.quantity

\* C29: a complete manual sell of a lot (the trade recorded and the lot
\* deleted, nothing else changed) raises availableCapital by
\* sellPrice * quantity, lowers totalInvested by buyPrice * quantity, raises
\* totalRealizedProfit by (sellPrice - buyPrice) * quantity and leaves the
\* net capital as it was.
C29_SellMovesCapital ==
    calc.fn = "getCapitalSummary" =>
        \A h \in calc.holdings, t \in trades :
            CompleteSell(h, t) =>
                /\ SameNumber(getCapitalSummary.availableCapital,
                              Plus(calc.summary.availableCapital,
                                   t.sell_price * h.quantity))
                /\ getCapitalSummary.totalInvested
                      = calc.summary.totalInvested - h.buy_price * h.quantity
                /\ getCapitalSummary.totalRealizedProfit
                      = calc.summary.totalRealizedProfit
                          + (t.sell_price - h.buy_price) * h.quantity
                /\ SameNumber(getCapitalSummary.totalCapital, calc.summary.totalCapital)

\* A sell has completed since the summary was read: the lot bought at 10 is
\* gone, its trade at 12 is recorded, and the available capital has grown
\* by 36 while another lot is still held.
C29_Witness ==
    /\ calc.fn = "getCapitalSummary"
    /\ ui.pc = "idle"
    /\ \E h \in calc.holdings, t \in trades :
          /\ CompleteSell(h, t)
          /\ t.sell_price = 12 /\ h.quantity = 3
          /\ holdings # {}
          /\ SameNumber(getCapitalSummary.availableCapital,
                        Plus(calc.summary.availableCapital, 36))


\* ------------------------------- the two-step delete of a row (both pages)
\* DELETE requests a page sends in one run.
MaxSent == 2

\* The holdings page (HoldingsContent) and the trades page: the rows shown,
\* the confirmation dialog (confirmOpen, confirmStep, the id chosen, 0 for
\* null: ids start at 1) and the number of DELETE requests sent so far.
DeletePages == {"holdings", "trades"}
InitDeletePage ==
    \E page \in DeletePages :
        ui = [page |-> page, fetching |-> TRUE, rows |-> {},
              confirmOpen |-> FALSE, confirmStep |-> 1, toDelete |-> 0,
              sent |-> 0]

\* Rows arrive in the store from any client.
DeletePagePostHolding ==
    /\ nextHoldingId <= MaxLots
    /\ \E d \in Dates : holdings_POST("GOLDBEES", d, 10, 3)
    /\ UNCHANGED <<today, ui, concVars, fifoVars, mktVars, capVars, calcVars>>

DeletePagePostTrade ==
    /\ nextTradeId <= MaxTrades + 1
    /\ \E sp \in SellPrices : trades_POST("GOLDBEES", today, today, 10, sp, 3)
    /\ UNCHANGED <<today, ui, concVars, fifoVars, mktVars, capVars, calcVars>>

\* fetchData / fetchTrades: the rows of the page's table.
fetchRows ==
    /\ ui.fetching
    /\ ui' = [ui EXCEPT !.fetching = FALSE,
                        !.rows = IF ui.page = "holdings"
                                 THEN {h.id : h \in getAllHoldings}
                                 ELSE {t.id : t \in getAllTrades}]
    /\ UNCHANGED <<dbVars, envVars, concVars, fifoVars, mktVars, capVars, calcVars>>

\* handleDeleteClick(id): the Delete button of a row; the dialog's overlay
\* covers the table while it is open.
handleDeleteClick ==
    /\ ~ui.confirmOpen
    /\ \E id \in ui.rows :
          ui' = [ui EXCEPT !.toDelete = id, !.confirmStep = 1, !.confirmOpen = TRUE]
    /\ UNCHANGED <<dbVars, envVars, concVars, fifoVars, mktVars, capVars, calcVars>>

\* The DELETE request of the page for an id and what follows its response;
\* netFault: fetch rejects and the catch only logs.
sendDelete(id, dbFault, netFault) ==
    IF netFault
    THEN /\ ui' = [ui EXCEPT !.sent = @ + 1]
         /\ UNCHANGED <<dbVars, envVars>>
    ELSE /\ IF ui.page = "holdings"
            THEN holdings_DELETE(id, dbFault)
            ELSE ~dbFault /\ trades_DELETE(id)
         /\ ui' = [ui EXCEPT !.sent = @ + 1, !.fetching = TRUE,
                             !.confirmOpen = FALSE, !.toDelete = 0]
         /\ UNCHANGED today

\* Mutant: the first confirmation already sends the request.
confirmDelete_oneStep ==
    /\ ui.confirmOpen
    /\ ui.sent < MaxSent
    /\ IF ui.toDelete = 0
       THEN UNCHANGED <<dbVars, envVars, ui>>
       ELSE \E dbFault \in BOOLEAN, netFault \in BOOLEAN :
               sendDelete(ui.toDelete, dbFault, netFault)
    /\ UNCHANGED <<concVars, fifoVars, mktVars, capVars, calcVars>>

\* confirmDelete: the dialog's confirm button.
confirmDelete ==
    /\ ui.confirmOpen
    /\ ui.sent < MaxSent
    /\ IF ui.toDelete = 0
       THEN UNCHANGED <<dbVars, envVars, ui>>
       ELSE IF ui.confirmStep = 1
       THEN /\ ui' = [ui EXCEPT !.confirmStep = 2]
            /\ UNCHANGED <<dbVars, envVars>>
       ELSE \E dbFault \in BOOLEAN, netFault \in BOOLEAN :
               sendDelete(ui.toDelete, dbFault, netFault)
    /\ UNCHANGED <<concVars, fifoVars, mktVars, capVars, calcVars>>

\* cancelDelete: the dialog's cancel button.
cancelDelete ==
    /\ ui.confirmOpen
    /\ ui' = [ui EXCEPT !.confirmOpen = FALSE, !.toDelete = 0, !.confirmStep = 1]
    /\ UNCHANGED <<dbVars, envVars, concVars, fifoVars, mktVars, capVars, calcVars>>

InitDelete == InitDB /\ InitEnv /\ InitDeletePage /\ InitConc /\ InitFifo /\ InitCap /\ InitMkt /\ InitCalc
NextDelete ==
    \/ DeletePagePostHolding
    \/ DeletePagePostTrade
    \/ fetchRows
    \/ handleDeleteClick
    \/ confirmDelete
    \/ cancelDelete
SpecDelete == InitDelete /\ [][NextDelete]_vars

\* C30: deleting a row is a two-step confirmation.  A DELETE request is sent
\* only from the dialog open at step 2 for the chosen id, and a row leaves
\* the store only if it is that id; step 2 is entered only by a confirm at
\* step 1, for the same id and without a request; a cancel at either step
\* closes the dialog at step 1 with no id and sends nothing; a delete click
\* opens the dialog at step 1.
C30_TwoStepDelete ==
    [][ /\ ui'.sent # ui.sent =>
              /\ ui.confirmOpen /\ ui.confirmStep = 2 /\ ui.toDelete # 0
              /\ holdings \ holdings' \subseteq {h \in holdings : h.id = ui.toDelete}
              /\ trades \ trades' \subseteq {t \in trades : t.id = ui.toDelete}
        /\ ui'.sent = ui.sent =>
              /\ holdings \subseteq holdings' /\ trades \subseteq trades'
              /\ \/ resp' = resp
                 \/ resp'.route \notin {"DELETE /api/holdings", "DELETE /api/trades"}
        /\ (ui'.confirmStep = 2 /\ ui.confirmStep # 2) =>
              /\ ui.confirmOpen /\ ui.confirmStep = 1 /\ ui'.confirmOpen
              /\ ui'.toDelete = ui.toDelete /\ ui.toDelete # 0
              /\ ui'.sent = ui.sent
        /\ (ui.confirmOpen /\ ui'.confirmStep = 1 /\ ui'.toDelete = 0) =>
              /\ ~ui'.confirmOpen /\ ui'.sent = ui.sent /\ UNCHANGED <<dbVars, resp>>
        /\ (~ui.confirmOpen /\ ui'.confirmOpen) =>
              /\ ui'.confirmStep = 1 /\ ui'.toDelete \in ui.rows /\ ui'.sent = ui.sent
        /\ (ui.confirmOpen /\ ui'.confirmOpen /\ ui'.toDelete # ui.toDelete) => FALSE
      ]_vars

\* A row shown on the page has been deleted through the dialog: one request
\* was sent, it was answered 200 and the row is gone from the store.
C30_Witness ==
    /\ ui.sent = 1 /\ ~ui.confirmOpen /\ ui.toDelete = 0 /\ ui.confirmStep = 2
    /\ resp.route \in {"DELETE /api/holdings", "DELETE /api/trades"} /\ resp.status = 200
    /\ \E id \in ui.rows :
          IF ui.page = "holdings" THEN \A h \in holdings : h.id # id
          ELSE \A t \in trades : t.id # id


\* ------------------------------------------- instruments and market data
\* The largest id an added instrument gets (the seed rows hold 1 and 2).
MaxEtfId == 3

\* What POST /api/etfs may carry as symbol ("" is an absent field) and
\* String.prototype.toUpperCase on these symbols.
EtfSymbols == {"", "GOLDBEES", "goldbees", "JUNIORBEES", "juniorbees"}
toUpperCase(s) ==
    CASE s = "goldbees" -> "GOLDBEES"
      [] s = "juniorbees" -> "JUNIORBEES"
      [] OTHER -> s

\* addETF: the symbol is stored in upper case, the yahoo symbol as entered.
addETF(symbol) ==
    etfs \cup {[id |-> nextEtfId, symbol |-> toUpperCase(symbol),
                yahoo_symbol |-> <<symbol, ".NS">>]}

\* Mutant: the existence check looks the symbol up as entered; the INSERT of
\* a symbol that exists in upper case then fails on UNIQUE and the catch
\* answers 500.
etfs_POST_asEntered(symbol, name, category) ==
    /\ warned' = FALSE
    /\ IF symbol = "" \/ name = "" \/ category = ""
       THEN /\ resp' = Response("POST /api/etfs", 400, 0)
            /\ UNCHANGED <<dbVars, nextEtfId>>
       ELSE IF getETFBySymbol(symbol) # {}
       THEN /\ resp' = Response("POST /api/etfs", 409, 0)
            /\ UNCHANGED <<dbVars, nextEtfId>>
       ELSE IF getETFBySymbol(toUpperCase(symbol)) # {}
       THEN /\ resp' = Response("POST /api/etfs", 500, 0)
            /\ UNCHANGED <<dbVars, nextEtfId>>
       ELSE /\ etfs' = addETF(symbol)
            /\ nextEtfId' = nextEtfId + 1
            /\ resp' = Response("POST /api/etfs", 200, nextEtfId)
            /\ UNCHANGED <<holdings, nextHoldingId, trades, nextTradeId,
                           daily_activity, settings>>
    /\ UNCHANGED <<market_data, refresh>>

\* POST /api/etfs
etfs_POST(symbol, name, category) ==
    /\ warned' = FALSE
    /\ IF symbol = "" \/ name = "" \/ category = ""
       THEN /\ resp' = Response("POST /api/etfs", 400, 0)
            /\ UNCHANGED <<dbVars, nextEtfId>>
       ELSE IF getETFBySymbol(toUpperCase(symbol)) # {}
       THEN /\ resp' = Response("POST /api/etfs", 409, 0)
            /\ UNCHANGED <<dbVars, nextEtfId>>
       ELSE /\ etfs' = addETF(symbol)
            /\ nextEtfId' = nextEtfId + 1
            /\ resp' = Response("POST /api/etfs", 200, nextEtfId)
            /\ UNCHANGED <<holdings, nextHoldingId, trades, nextTradeId,
                           daily_activity, settings>>
    /\ UNCHANGED <<market_data, refresh>>

\* DELETE /api/etfs?id=...: deleteETF removes the market data of the
\* instrument, then the instrument.  enforced: the connection enforces
\* REFERENCES etfs(id) (a setting of the SQLite build); the second statement
\* then throws while a lot or a trade refers to the instrument, after the
\* first one has run.
etfs_DELETE(id, enforced) ==
    /\ warned' = FALSE
    /\ IF id = 0
       THEN /\ resp' = Response("DELETE /api/etfs", 400, 0)
            /\ UNCHANGED <<dbVars, market_data>>
       ELSE /\ market_data' = {m \in market_data : m.etf_id # id}
            /\ IF enforced /\ ((\E h \in holdings : h.etf_id = id)
                                \/ (\E t \in trades : t.etf_id = id))
               THEN /\ resp' = Response("DELETE /api/etfs", 500, 0)
                    /\ UNCHANGED dbVars
               ELSE /\ etfs' = {e \in etfs : e.id # id}
                    /\ resp' = Response("DELETE /api/etfs", 200, 0)
                    /\ UNCHANGED <<holdings, nextHoldingId, trades, nextTradeId,
                                   daily_activity, settings>>
    /\ UNCHANGED <<nextEtfId, refresh>>

\* Two quotes fetchYahooFinanceDataWith20DMA may return for an instrument.
Quotes == {[cmp |-> 9, high_52w |-> 12, volume |-> 15000],
           [cmp |-> 10, high_52w |-> 10, volume |-> 0]}

\* Mutant: a plain INSERT into a table without the UNIQUE column.
upsertMarketData_insert(etfId, quote) ==
    market_data \cup {[etf_id |-> etfId, cmp |-> quote.cmp,
                       high_52w |-> quote.high_52w, volume |-> quote.volume]}

\* INSERT ... ON CONFLICT(etf_id) DO UPDATE SET every column = excluded
upsertMarketData(etfId, quote) ==
    {m \in market_data : m.etf_id # etfId}
        \cup {[etf_id |-> etfId, cmp |-> quote.cmp,
               high_52w |-> quote.high_52w, volume |-> quote.volume]}

\* The market refresh route, up to its first await: getAllETFs() and one
\* fetch started per instrument.
market_GET ==
    /\ refresh = {}
    /\ etfs # {}
    /\ refresh' = {e.yahoo_symbol : e \in etfs}
    /\ UNCHANGED <<dbVars, envVars, market_data, nextEtfId>>

\* One fetch of the refresh settles.  quote = Null: the fetch failed.  The
\* symbol of the data is yahooSymbol.replace('.NS', ''); the instrument is
\* looked up again by it and the row written in the same synchronous step.
market_GET_settle(yahooSymbol, quote) ==
    /\ yahooSymbol \in refresh
    /\ refresh' = refresh \ {yahooSymbol}
    /\ LET etfRecord == getETFBySymbol(yahooSymbol[1]) IN
         IF quote # Null /\ etfRecord # {}
         THEN market_data' = upsertMarketData((CHOOSE e \in etfRecord : TRUE).id, quote)
         ELSE UNCHANGED market_data
    /\ UNCHANGED <<dbVars, envVars, nextEtfId>>

MarketPostETF ==
    /\ nextEtfId <= MaxEtfId
    /\ \E symbol \in EtfSymbols, name \in {"", "Gold"}, category \in {"", "Gold"} :
          etfs_POST(symbol, name, category)
    /\ UNCHANGED <<today, ui, concVars, fifoVars, capVars, calcVars>>

MarketDeleteETF ==
    /\ \E id \in 0..MaxEtfId, enforced \in BOOLEAN : etfs_DELETE(id, enforced)
    /\ UNCHANGED <<today, ui, concVars, fifoVars, capVars, calcVars>>

MarketRefresh ==
    /\ market_GET
    /\ UNCHANGED <<ui, concVars, fifoVars, capVars, calcVars>>

MarketSettle ==
    /\ \E yahooSymbol \in refresh, quote \in Quotes \cup {Null} :
          market_GET_settle(yahooSymbol, quote)
    /\ UNCHANGED <<ui, concVars, fifoVars, capVars, calcVars>>

\* One purchase and one sale reach the API, for a seeded instrument or for
\* a symbol no instrument has.
MarketPostHolding ==
    /\ nextHoldingId = 1
    /\ \E sym \in ApiSymbols : holdings_POST(sym, today, 10, 3)
    /\ UNCHANGED <<today, ui, concVars, fifoVars, mktVars, capVars, calcVars>>

MarketPostTrade ==
    /\ nextTradeId <= MaxTrades
    /\ \E sym \in ApiSymbols : trades_POST(sym, today, today, 10, 12, 3)
    /\ UNCHANGED <<today, ui, concVars, fifoVars, mktVars, capVars, calcVars>>

NextMarket ==
    \/ MarketPostETF
    \/ MarketDeleteETF
    \/ MarketRefresh
    \/ MarketSettle
    \/ MarketPostHolding
    \/ MarketPostTrade

SpecMarket == InitAPI /\ [][NextMarket]_vars


\* The row a quote becomes for an instrument.
SnapshotOf(etfId, quote) ==
    [etf_id |-> etfId, cmp |-> quote.cmp, high_52w |-> quote.high_52w,
     volume |-> quote.volume]

OneSnapshotPerInstrument ==
    /\ \A m1 \in market_data, m2 \in market_data : m1.etf_id = m2.etf_id => m1 = m2
    /\ \A m \in market_data : \E e \in etfs : e.id = m.etf_id

\* C23: through any sequence of market refreshes, instrument additions and
\* deletions there is at most one market snapshot row per instrument and no
\* snapshot row of an instrument that is no longer stored; a refresh that
\* writes an instrument's quote leaves exactly that quote as its row.
C23_SnapshotPerInstrument ==
    /\ []OneSnapshotPerInstrument
    /\ [][\A yahooSymbol \in refresh, quote \in Quotes :
            (refresh' # refresh /\ market_GET_settle(yahooSymbol, quote)) =>
                \A e \in getETFBySymbol(yahooSymbol[1]) :
                    {m \in market_data' : m.etf_id = e.id} = {SnapshotOf(e.id, quote)}]_vars

\* An instrument has a snapshot from a refresh, and another instrument was
\* deleted while a refresh still waits for its quote.
C23_Witness ==
    /\ \E m \in market_data : m.etf_id = 2 /\ m.cmp = 10
    /\ \E yahooSymbol \in refresh : getETFBySymbol(yahooSymbol[1]) = {}
    /\ \A e \in etfs : e.id # 1

\* No two stored instruments have the same symbol, whatever the letter case.
SymbolsUnique ==
    \A e1 \in etfs, e2 \in etfs :
        toUpperCase(e1.symbol) = toUpperCase(e2.symbol) => e1 = e2

\* C24: a request rejected with a validation error leaves the store as it
\* was.  A purchase or a sale for a symbol no instrument has is answered 404,
\* adds no row and counts nothing; POST /api/etfs with a missing field is
\* answered 400 and with a symbol that exists in any letter case 409, and
\* neither adds an instrument; symbols stay unique.
C24_RejectedChangesNothing ==
    /\ []SymbolsUnique
    /\ [][ /\ \A sym \in ApiSymbols :
                (resp'.route = "POST /api/holdings" /\ getETFBySymbol(sym) = {}
                   /\ holdings_POST(sym, today, 10, 3)) =>
                    (resp'.status = 404 /\ UNCHANGED dbVars)
           /\ \A sym \in ApiSymbols :
                (resp'.route = "POST /api/trades" /\ getETFBySymbol(sym) = {}
                   /\ trades_POST(sym, today, today, 10, 12, 3)) =>
                    (resp'.status = 404 /\ UNCHANGED dbVars)
           /\ \A symbol \in EtfSymbols, name \in {"", "Gold"}, category \in {"", "Gold"} :
                (resp'.route = "POST /api/etfs" /\ etfs_POST(symbol, name, category)) =>
                    /\ (symbol = "" \/ name = "" \/ category = "") =>
                          (resp'.status = 400 /\ UNCHANGED <<dbVars, mktVars>>)
                    /\ (symbol # "" /\ name # "" /\ category # ""
                          /\ \E e \in etfs : toUpperCase(e.symbol) = toUpperCase(symbol)) =>
                          (resp'.status = 409 /\ UNCHANGED <<dbVars, mktVars>>)
                    /\ resp'.status \in {400, 409} => UNCHANGED <<dbVars, mktVars>>
         ]_vars

\* A new instrument was added in lower case and stored in upper case; then a
\* request was rejected: a purchase for a symbol no instrument has (404).
C24_Witness ==
    /\ \E e \in etfs : e.symbol = "JUNIORBEES" /\ e.yahoo_symbol[1] = "juniorbees"
    /\ resp.status = 404 /\ resp.route = "POST /api/holdings"
    /\ holdings = {} /\ daily_activity = <<>>

====
